---------------------------- MODULE Spec2Model ----------------------------
(***************************************************************************)
(* Model of the MessagePack-lite serialization layer of js-benchmark:      *)
(*   msgpack_lite::Packer / Value / Unpacker  (benchmark_msgpack.cpp,      *)
(*                                             src/unnamed/part_009)       *)
(*   MsgpackPacker                            (benchmark_msgpack.cpp,      *)
(*                                             src/unnamed/part_008)       *)
(*                                                                         *)
(* Bytes are naturals 0..255.  An int64_t and the bits of a double are     *)
(* tuples of 8 bytes, most significant first (two's complement), because   *)
(* the values of interest do not fit the model checker's integers.  A      *)
(* size_t is the 32-bit size type of the wasm32 build.                     *)
(***************************************************************************)
EXTENDS Integers, Sequences, FiniteSets, TLC

(***************************************************************************)
(* Bit operations on naturals, as the C++ operators & and | compute them.  *)
(***************************************************************************)
RECURSIVE BitAnd(_, _)
BitAnd(a, b) ==
  IF a = 0 \/ b = 0 THEN 0
  ELSE (IF a % 2 = 1 /\ b % 2 = 1 THEN 1 ELSE 0) + 2 * BitAnd(a \div 2, b \div 2)

RECURSIVE BitOr(_, _)
BitOr(a, b) ==
  IF a = 0 THEN b
  ELSE IF b = 0 THEN a
  ELSE (IF a % 2 = 1 \/ b % 2 = 1 THEN 1 ELSE 0) + 2 * BitOr(a \div 2, b \div 2)

\* static_cast<uint8_t>(n) of a non-negative n
U8(n) == n % 256

\* (n >> s) & 0xff for a non-negative n, s a multiple of 8 given as 2^s
ShrByte(n, pow) == (n \div pow) % 256

(***************************************************************************)
(* int64_t as 8 bytes, most significant first.                             *)
(***************************************************************************)
\* the int64_t holding the small integer n (-2^31 <= n < 2^31)
I64(n) ==
  IF n >= 0
  THEN <<0, 0, 0, 0, ShrByte(n, 16777216), ShrByte(n, 65536), ShrByte(n, 256), n % 256>>
  ELSE LET m == (n + 2147483647) + 1   \* n + 2^31, in 0 .. 2^31-1
       IN <<255, 255, 255, 255, 128 + ShrByte(m, 16777216), ShrByte(m, 65536),
            ShrByte(m, 256), m % 256>>

\* v < 0
I64Neg(v) == v[1] >= 128

\* v is in -2^31 .. 2^31-1
I64Fits32(v) ==
  \/ (\A i \in 1..4 : v[i] = 0) /\ v[5] < 128
  \/ (\A i \in 1..4 : v[i] = 255) /\ v[5] >= 128

\* the integer value of v when it is in -2^31 .. 2^31-1
I64Small(v) ==
  (IF v[5] >= 128 THEN v[5] - 256 ELSE v[5]) * 16777216 + v[6] * 65536 + v[7] * 256 + v[8]

\* the C++ comparisons v >= c and v <= c, for a constant c in -2^31 .. 2^31-1
I64Ge(v, c) == IF I64Fits32(v) THEN I64Small(v) >= c ELSE ~I64Neg(v)
I64Le(v, c) == IF I64Fits32(v) THEN I64Small(v) <= c ELSE I64Neg(v)

\* static_cast<uint8_t>((v >> (i * 8)) & 0xff), i in 0..7
I64Byte(v, i) == v[8 - i]

(***************************************************************************)
(* msgpack_lite::Packer (part_009).  Each operation appends to the         *)
(* object's buffer; it is given the buffer and returns the new buffer.     *)
(***************************************************************************)
Packer_pack_nil(buffer) == Append(buffer, 192)

Packer_pack_true(buffer) == Append(buffer, 195)

Packer_pack_false(buffer) == Append(buffer, 194)

Packer_pack_bool(buffer, v) == Append(buffer, IF v THEN 195 ELSE 194)

Packer_pack_int(buffer, v) ==
  IF I64Ge(v, 0) /\ I64Le(v, 127) THEN
    Append(buffer, I64Byte(v, 0))
  ELSE IF I64Ge(v, -32) /\ ~I64Ge(v, 0) THEN
    Append(buffer, I64Byte(v, 0))
  ELSE IF I64Ge(v, -128) /\ I64Le(v, 127) THEN
    buffer \o <<208, I64Byte(v, 0)>>
  ELSE IF I64Ge(v, -32768) /\ I64Le(v, 32767) THEN
    buffer \o <<209, I64Byte(v, 1), I64Byte(v, 0)>>
  ELSE
    buffer \o <<210, I64Byte(v, 3), I64Byte(v, 2), I64Byte(v, 1), I64Byte(v, 0)>>

\* v is the 64-bit pattern of the double
\* a pack_double that emits the least significant byte first
Packer_pack_double_lsb_first(buffer, v) ==
  buffer \o <<203>> \o [i \in 1..8 |-> I64Byte(v, i - 1)]

Packer_pack_double(buffer, v) ==
  buffer \o <<203>> \o [i \in 1..8 |-> I64Byte(v, 8 - i)]

Packer_pack_string(buffer, s) ==
  LET len == Len(s)
      hdr == IF len <= 31 THEN <<BitOr(160, U8(len))>>
             ELSE IF len <= 255 THEN <<217, U8(len)>>
             ELSE <<218, ShrByte(len, 256), len % 256>>
  IN buffer \o hdr \o s

Packer_pack_array_header(buffer, size) ==
  IF size <= 15 THEN Append(buffer, BitOr(144, U8(size)))
  ELSE buffer \o <<220, ShrByte(size, 256), size % 256>>

Packer_pack_map_header(buffer, size) ==
  IF size <= 15 THEN Append(buffer, BitOr(128, U8(size)))
  ELSE buffer \o <<222, ShrByte(size, 256), size % 256>>

(***************************************************************************)
(* MsgpackPacker (part_008).                                               *)
(***************************************************************************)
MsgpackPacker_pack_nil(buffer) == Append(buffer, 192)

MsgpackPacker_pack_true(buffer) == Append(buffer, 195)

MsgpackPacker_pack_false(buffer) == Append(buffer, 194)

MsgpackPacker_pack_bool(buffer, v) == Append(buffer, IF v THEN 195 ELSE 194)

MsgpackPacker_pack_int(buffer, v) ==
  IF I64Ge(v, 0) /\ I64Le(v, 127) THEN
    Append(buffer, I64Byte(v, 0))
  ELSE IF I64Ge(v, -32) /\ ~I64Ge(v, 0) THEN
    Append(buffer, I64Byte(v, 0))
  ELSE IF I64Ge(v, -128) /\ I64Le(v, 127) THEN
    buffer \o <<208, I64Byte(v, 0)>>
  ELSE IF I64Ge(v, -32768) /\ I64Le(v, 32767) THEN
    buffer \o <<209, I64Byte(v, 1), I64Byte(v, 0)>>
  ELSE IF I64Ge(v, -2147483647 - 1) /\ I64Le(v, 2147483647) THEN
    buffer \o <<210, I64Byte(v, 3), I64Byte(v, 2), I64Byte(v, 1), I64Byte(v, 0)>>
  ELSE
    buffer \o <<211>> \o [i \in 1..8 |-> I64Byte(v, 8 - i)]

MsgpackPacker_pack_double(buffer, v) ==
  buffer \o <<203>> \o [i \in 1..8 |-> I64Byte(v, 8 - i)]

MsgpackPacker_pack_string(buffer, s) ==
  LET len == Len(s)
      hdr == IF len <= 31 THEN <<BitOr(160, U8(len))>>
             ELSE IF len <= 255 THEN <<217, U8(len)>>
             ELSE IF len <= 65535 THEN <<218, ShrByte(len, 256), len % 256>>
             ELSE <<219, ShrByte(len, 16777216), ShrByte(len, 65536),
                    ShrByte(len, 256), len % 256>>
  IN buffer \o hdr \o s

MsgpackPacker_pack_array_header(buffer, size) ==
  IF size <= 15 THEN Append(buffer, BitOr(144, U8(size)))
  ELSE IF size <= 65535 THEN buffer \o <<220, ShrByte(size, 256), size % 256>>
  ELSE buffer \o <<221, ShrByte(size, 16777216), ShrByte(size, 65536),
                   ShrByte(size, 256), size % 256>>

MsgpackPacker_pack_map_header(buffer, size) ==
  IF size <= 15 THEN Append(buffer, BitOr(128, U8(size)))
  ELSE IF size <= 65535 THEN buffer \o <<222, ShrByte(size, 256), size % 256>>
  ELSE buffer \o <<223, ShrByte(size, 16777216), ShrByte(size, 65536),
                   ShrByte(size, 256), size % 256>>

(***************************************************************************)
(* msgpack_lite::Value (part_009): a variant over nullptr_t, bool,         *)
(* int64_t, double, std::string, Array and Map: the pair of the           *)
(* alternative held and its content (an Array is a sequence, a Map a       *)
(* function from its keys, which std::map keeps unique).                   *)
(***************************************************************************)
VNil == <<"nil", <<>> >>

VBool(b) == <<"bool", <<b>> >>

VInt(i) == <<"int", i>>

VDouble(bits) == <<"double", bits>>

VStr(s) == <<"str", s>>

VArr(a) == <<"arr", a>>

VMap(m) == <<"map", m>>

EmptyMap == [k \in {} |-> VNil]

\* an insertion that keeps the value a key already has (std::map::insert)
MapSet_keep_first(m, key, val) ==
  [k \in (DOMAIN m) \cup {key} |-> IF k \in DOMAIN m THEN m[k] ELSE val]

\* m[key] = val on a std::map
MapSet(m, key, val) ==
  [k \in (DOMAIN m) \cup {key} |-> IF k = key THEN val ELSE m[k]]

is_nil(x) == x[1] = "nil"

is_bool(x) == x[1] = "bool"

is_int(x) == x[1] = "int"

is_double(x) == x[1] = "double"

is_string(x) == x[1] = "str"

is_array(x) == x[1] = "arr"

is_map(x) == x[1] = "map"

(***************************************************************************)
(* The typed accessors.  std::get<T> on a variant that holds another       *)
(* alternative throws std::bad_variant_access: an accessor yields either   *)
(* the content or that exception.                                          *)
(***************************************************************************)
Got(x) == [raised |-> "none", val |-> x]

BadVariantAccess == [raised |-> "bad_variant_access", val |-> <<>>]

\* std::get<T>(data), T named by its tag
std_get(x, tag) == IF x[1] = tag THEN Got(x[2]) ELSE BadVariantAccess

as_bool(x) == std_get(x, "bool")

as_int(x) == std_get(x, "int")

\* the converted integer is reported as the pair <<"from_int", bits of the int>>
as_double(x) ==
  IF is_int(x) THEN Got(<<"from_int", as_int(x).val>>)
  ELSE std_get(x, "double")

as_string(x) == std_get(x, "str")

as_array(x) == std_get(x, "arr")

as_map(x) == std_get(x, "map")

(***************************************************************************)
(* The accessors that test the alternative first.  Each yields what it     *)
(* returns, or the exception of the std::get it reaches.                   *)
(***************************************************************************)
\* has(key) without its is_map() test
has_unguarded(x, key) ==
  LET m == as_map(x)
  IN IF m.raised # "none" THEN m ELSE Got(key \in DOMAIN m.val)

\* bool has(const std::string& key) const
has(x, key) ==
  IF ~is_map(x) THEN Got(FALSE)
  ELSE LET m == as_map(x)
       IN IF m.raised # "none" THEN m ELSE Got(key \in DOMAIN m.val)

\* const Value& operator[](const std::string& key) const
index_key(x, key) ==
  IF ~is_map(x) THEN Got(VNil)
  ELSE LET m == as_map(x)
       IN IF m.raised # "none" THEN m
          ELSE IF key \notin DOMAIN m.val THEN Got(VNil)
          ELSE Got(m.val[key])

\* const Value& operator[](size_t idx) const
index_idx(x, idx) ==
  IF ~is_array(x) THEN Got(VNil)
  ELSE LET arr == as_array(x)
       IN IF arr.raised # "none" THEN arr
          ELSE IF idx >= Len(arr.val) THEN Got(VNil)
          ELSE Got(arr.val[idx + 1])

\* size_t size() const
Value_size(x) ==
  IF is_array(x) THEN
    LET arr == as_array(x)
    IN IF arr.raised # "none" THEN arr ELSE Got(Len(arr.val))
  ELSE IF is_map(x) THEN
    LET m == as_map(x)
    IN IF m.raised # "none" THEN m ELSE Got(Cardinality(DOMAIN m.val))
  ELSE Got(0)

(***************************************************************************)
(* float -> double (static_cast<double>(f)) on bit patterns.               *)
(***************************************************************************)
RECURSIVE Pow2(_)
Pow2(n) == IF n = 0 THEN 1 ELSE 2 * Pow2(n - 1)

\* the w low bits of n, most significant first
Bits(n, w) == [i \in 1..w |-> (n \div Pow2(w - i)) % 2]

Zeros(n) == [i \in 1..n |-> 0]

\* 64 bits to 8 bytes
BytesOfBits(bs) ==
  [j \in 1..8 |->
     128 * bs[8*j-7] + 64 * bs[8*j-6] + 32 * bs[8*j-5] + 16 * bs[8*j-4]
     + 8 * bs[8*j-3] + 4 * bs[8*j-2] + 2 * bs[8*j-1] + bs[8*j]]

\* index (0-based from the least significant) of the highest set bit, n > 0
RECURSIVE HighBit(_)
HighBit(n) == IF n = 1 THEN 0 ELSE 1 + HighBit(n \div 2)

\* b: the 4 bytes of the float, most significant first
F32ToF64(b) ==
  LET sign == b[1] \div 128
      ex   == (b[1] % 128) * 2 + (b[2] \div 128)
      mant == (b[2] % 128) * 65536 + b[3] * 256 + b[4]
  IN BytesOfBits(
       IF ex = 255 THEN
         \* infinity, or NaN (made quiet, payload kept)
         <<sign>> \o Bits(2047, 11)
           \o (IF mant = 0 THEN Zeros(52)
               ELSE <<1>> \o SubSeq(Bits(mant, 23), 2, 23) \o Zeros(29))
       ELSE IF ex = 0 /\ mant = 0 THEN
         <<sign>> \o Zeros(63)
       ELSE IF ex = 0 THEN
         \* subnormal float: a normal double
         LET p == HighBit(mant)
         IN <<sign>> \o Bits(p + 874, 11) \o Bits(mant - Pow2(p), p) \o Zeros(52 - p)
       ELSE
         <<sign>> \o Bits(ex + 896, 11) \o Bits(mant, 23) \o Zeros(29))

(***************************************************************************)
(* msgpack_lite::Unpacker (part_009).                                      *)
(***************************************************************************)
\* read_byte() without its bounds check: past the end it yields a stray byte
read_byte_unchecked(d, l, p) ==
  [throw |-> FALSE, b |-> IF p < l THEN d[p + 1] ELSE 0, pos |-> p + 1]

\* a read_byte() that past the end yields the nil tag and leaves the cursor
read_byte_lenient(d, l, p) ==
  IF p >= l THEN [throw |-> FALSE, b |-> 192, pos |-> p]
  ELSE [throw |-> FALSE, b |-> d[p + 1], pos |-> p + 1]

\* read_byte(): the bounds check, the byte and the advanced cursor
read_byte(d, l, p) ==
  IF p >= l THEN [throw |-> TRUE, b |-> 0, pos |-> p]
  ELSE [throw |-> FALSE, b |-> d[p + 1], pos |-> p + 1]

\* range tests in which the fixstr test masks two bits only
RangeTests_wide_fixstr(b) ==
  {t \in {"posfixint", "negfixint", "fixmap", "fixarray", "fixstr"} :
     CASE t = "posfixint" -> BitAnd(b, 128) = 0
       [] t = "negfixint" -> BitAnd(b, 224) = 224
       [] t = "fixmap" -> BitAnd(b, 240) = 128
       [] t = "fixarray" -> BitAnd(b, 240) = 144
       [] t = "fixstr" -> BitAnd(b, 192) = 128}

\* The range tests of unpack() that the byte b satisfies, each taken alone:
\* (b & 0x80) == 0, (b & 0xe0) == 0xe0, (b & 0xf0) == 0x80,
\* (b & 0xf0) == 0x90, (b & 0xe0) == 0xa0.
RangeTests(b) ==
  {t \in {"posfixint", "negfixint", "fixmap", "fixarray", "fixstr"} :
     CASE t = "posfixint" -> BitAnd(b, 128) = 0
       [] t = "negfixint" -> BitAnd(b, 224) = 224
       [] t = "fixmap" -> BitAnd(b, 240) = 128
       [] t = "fixarray" -> BitAnd(b, 240) = 144
       [] t = "fixstr" -> BitAnd(b, 224) = 160}

\* The branch unpack() takes for the leading byte b: the five range tests in
\* the order of the code, then the switch.
TagKind(b) ==
  IF BitAnd(b, 128) = 0 THEN "posfixint"
  ELSE IF BitAnd(b, 224) = 224 THEN "negfixint"
  ELSE IF BitAnd(b, 240) = 128 THEN "fixmap"
  ELSE IF BitAnd(b, 240) = 144 THEN "fixarray"
  ELSE IF BitAnd(b, 224) = 160 THEN "fixstr"
  ELSE CASE b = 192 -> "nil"
         [] b = 194 -> "false"
         [] b = 195 -> "true"
         [] b = 204 -> "uint8"
         [] b = 205 -> "uint16"
         [] b = 206 -> "uint32"
         [] b = 208 -> "int8"
         [] b = 209 -> "int16"
         [] b = 210 -> "int32"
         [] b = 202 -> "float32"
         [] b = 203 -> "float64"
         [] b = 217 -> "str8"
         [] b = 218 -> "str16"
         [] b = 220 -> "array16"
         [] b = 221 -> "array32"
         [] b = 222 -> "map16"
         [] OTHER -> "default"

\* Number of bytes the branch reads with read_byte / read_uint16 /
\* read_uint32 / read_int8 / read_int16 / read_int32 / read_double
\* before anything else.
PayloadLen(kind) ==
  CASE kind \in {"uint8", "int8", "str8"} -> 1
    [] kind \in {"uint16", "int16", "str16", "array16", "map16"} -> 2
    [] kind \in {"uint32", "int32", "float32", "array32"} -> 4
    [] kind = "float64" -> 8
    [] OTHER -> 0

\* read_uint16 / read_uint32 assembling the bytes least significant first
UIntOf_little_endian(a) ==
  IF Len(a) = 1 THEN a[1]
  ELSE IF Len(a) = 2 THEN a[2] * 256 + a[1]
  ELSE (a[4] % 128) * 16777216 + a[3] * 65536 + a[2] * 256 + a[1]

\* read_uint16 / read_uint32 as an integer (a: the bytes read, a[1] < 128 for 4)
UIntOf(a) ==
  IF Len(a) = 1 THEN a[1]
  ELSE IF Len(a) = 2 THEN a[1] * 256 + a[2]
  ELSE a[1] * 16777216 + a[2] * 65536 + a[3] * 256 + a[4]

\* a conversion of the unsigned reads that extends the sign bit
ZeroExtend_signed(a) == [i \in 1..(8 - Len(a)) |-> IF a[1] >= 128 THEN 255 ELSE 0] \o a

\* static_cast<int64_t> of the unsigned value read
ZeroExtend(a) == Zeros(8 - Len(a)) \o a

\* a conversion of the signed reads that extends with zeros
SignExtend_unsigned(a) == Zeros(8 - Len(a)) \o a

\* static_cast<int64_t> of read_int8 / read_int16 / read_int32
SignExtend(a) == [i \in 1..(8 - Len(a)) |-> IF a[1] >= 128 THEN 255 ELSE 0] \o a

\* std::vector<Value>::reserve(n) throws (std::length_error, or
\* std::bad_alloc) when n elements cannot be allocated: on wasm32 the
\* address space is 2^32 bytes and a Value occupies at least 16.
ReserveLimit == 268435455

\* a: the 4 bytes of the count read by read_uint32, or its integer value
reserve_throws(a) ==
  IF Len(a) = 4 /\ a[1] >= 128 THEN TRUE ELSE UIntOf(a) > ReserveLimit

\* The Value a scalar branch returns once its payload bytes a are read.
ScalarOf(kind, a) ==
  CASE kind = "uint8" -> VInt(ZeroExtend(a))
    [] kind = "uint16" -> VInt(ZeroExtend(a))
    [] kind = "uint32" -> VInt(ZeroExtend(a))
    [] kind = "int8" -> VInt(SignExtend(a))
    [] kind = "int16" -> VInt(SignExtend(a))
    [] kind = "int32" -> VInt(SignExtend(a))
    [] kind = "float32" -> VDouble(F32ToF64(a))
    [] kind = "float64" -> VDouble(a)
    [] kind = "strbody" -> VStr(a)

(***************************************************************************)
(* Inputs.                                                                 *)
(***************************************************************************)
\* Longest buffer a further Packer operation is applied to.
MaxPrefixLen == 1

\* unpack() calls made on one Unpacker.
MaxCalls == 2

\* Longest raw input drawn from RawAlphabet.
MaxRawLen == 3

\* int64_t values at and around every size-class boundary of pack_int
IntSamples ==
  {I64(n) : n \in {0, 1, 5, 42, 127, 128, -1, -32, -33, -128, -129, 32767, 32768,
                   -32768, -32769, 2147483647, -2147483647 - 1}}
  \cup {<<0, 0, 0, 0, 128, 0, 0, 0>>,                   \* 2^31
        <<255, 255, 255, 255, 127, 255, 255, 255>>,     \* -2^31 - 1
        <<0, 0, 0, 1, 0, 0, 0, 0>>,                     \* 2^32
        <<127, 255, 255, 255, 255, 255, 255, 255>>,     \* 2^63 - 1
        <<128, 0, 0, 0, 0, 0, 0, 0>>}                   \* -2^63

\* bit patterns of 3.14159265359, -1.5, 0.0 and a NaN
DoubleSamples ==
  {<<64, 9, 33, 251, 84, 68, 46, 234>>, <<191, 248, 0, 0, 0, 0, 0, 0>>,
   <<0, 0, 0, 0, 0, 0, 0, 0>>, <<127, 248, 0, 0, 0, 0, 0, 1>>}

\* std::string(n, 'x')
StrX(n) == [i \in 1..n |-> 120]

\* string lengths at every size-class boundary of pack_string
StrOpLens == {0, 1, 10, 31, 32, 255, 256, 65535, 65536}

\* name lengths of the flat record in every length class of pack_string
FlatMsgpackArgs == {0, 1, 10, 31, 32, 255, 256, 1000, 65536}

\* element counts at every size-class boundary of the headers
CountSamples == {0, 1, 4, 15, 16, 255, 256, 65535, 65536, 16777216, 2147483647}

NoValue == <<"none", <<>> >>

SmallLeaves ==
  {VNil, VBool(TRUE), VInt(I64(5)), VInt(I64(-33)), VStr(<<97>>),
   VDouble(<<64, 9, 33, 251, 84, 68, 46, 234>>)}

Leaves ==
  {VNil, VBool(TRUE), VBool(FALSE)}
  \cup {VInt(i) : i \in IntSamples}
  \cup {VDouble(d) : d \in DoubleSamples}
  \cup {VStr(StrX(n)) : n \in {0, 1, 10, 31, 32, 256}}
  \cup {VStr(<<97>>), VStr(<<98, 99>>)}

Arrays ==
  {VArr(<<>>), VArr([i \in 1..15 |-> VNil]), VArr([i \in 1..16 |-> VInt(I64(0))])}
  \cup {VArr(<<l>>) : l \in Leaves \ {VStr(StrX(256))}}
  \cup {VArr(<<a, b>>) : a \in SmallLeaves, b \in SmallLeaves}

Maps ==
  {VMap(EmptyMap),
   VMap([k \in {<<97 + i>> : i \in 0..14} |-> VBool(FALSE)]),
   VMap([k \in {<<97 + i>> : i \in 0..15} |-> VInt(I64(k[1]))]),
   \* the flat record {id, name, value, flag}
   VMap([k \in {<<105, 100>>, <<110, 97, 109, 101>>, <<118, 97, 108, 117, 101>>,
                <<102, 108, 97, 103>>} |->
           IF k = <<105, 100>> THEN VInt(I64(42))
           ELSE IF k = <<110, 97, 109, 101>> THEN VStr(StrX(10))
           ELSE IF k = <<118, 97, 108, 117, 101>>
                THEN VDouble(<<64, 9, 33, 251, 84, 68, 46, 234>>)
           ELSE VBool(TRUE)])}
  \cup {VMap([k \in {<<97>>} |-> l]) : l \in SmallLeaves}
  \cup {VMap([k \in {<<97>>, <<98, 99>>} |-> IF k = <<97>> THEN a ELSE b]) :
          a \in SmallLeaves, b \in SmallLeaves}

SmallContainers ==
  {VArr(<<>>), VArr(<<VInt(I64(-129))>>), VMap(EmptyMap),
   VMap([k \in {<<97>>} |-> VInt(I64(128))]),
   VArr(<<VArr(<<VBool(FALSE)>>), VMap([k \in {<<98>>} |-> VArr(<<VNil>>)])>>)}

Nested ==
  {VArr(<<c>>) : c \in SmallContainers}
  \cup {VArr(<<c, VInt(I64(1))>>) : c \in SmallContainers}
  \cup {VMap([k \in {<<97>>, <<98>>} |-> IF k = <<97>> THEN c ELSE VStr(<<120>>)]) :
          c \in SmallContainers}

\* The Value trees that are encoded.
Values == Leaves \cup Arrays \cup Maps \cup Nested

\* What follows a complete encoding in the input.
Suffixes == {<<>>, <<192>>, <<1, 2>>, <<146, 3>>}

\* nil, 1, -1, 'a', fixstr 1, fixarray 2, fixmap 1, array16, map16, uint16
RawAlphabet == {192, 1, 255, 97, 161, 146, 129, 220, 222, 205}

RECURSIVE SeqsUpTo(_, _)
SeqsUpTo(S, n) ==
  IF n = 0 THEN {<<>>}
  ELSE LET shorter == SeqsUpTo(S, n - 1)
       IN shorter \cup {Append(q, x) : q \in {r \in shorter : Len(r) = n - 1}, x \in S}

\* Inputs that no Packer produced.
CraftedInputs ==
  {<<221, 127, 255, 255, 255>>, <<221, 255, 255, 255, 255>>, <<221, 16, 0, 0, 0>>,
   <<221, 0, 0, 0, 2, 1, 2>>, <<221, 0, 1, 0, 0, 192>>, <<220, 255, 255, 192>>,
   <<222, 255, 255, 161, 97>>, <<222, 0, 1, 161, 97, 192>>,
   <<202, 63, 192, 0, 0>>, <<202, 0, 1, 22, 194>>, <<202, 208, 242, 36, 213>>,
   <<202, 127, 128, 0, 0>>, <<202, 128, 0, 0, 0>>, <<202, 63, 192>>,
   <<203, 64, 9, 33, 251, 84, 68, 46, 234>>, <<203, 64, 9, 33, 251>>,
   <<204, 255>>, <<205, 255, 255>>, <<206, 255, 255, 255, 255>>, <<206, 0, 0, 1>>,
   <<208, 255>>, <<209, 128, 0>>, <<210, 128, 0, 0, 0>>, <<210, 255>>,
   <<211, 0, 0, 0, 0, 128, 0, 0, 0>>, <<217, 2, 97, 98>>, <<217, 3, 97>>,
   <<218, 0, 2, 97, 98>>, <<218, 1, 0, 97>>, <<219, 0, 0, 0, 1, 97>>,
   <<223, 0, 0, 0, 1, 161, 97, 1>>,
   <<130, 161, 97, 1, 161, 97, 2>>, <<130, 1, 2, 161, 97, 3>>,
   <<130, 161, 97, 1, 192, 2>>, <<129, 145, 1, 2>>, <<145, 161, 97>>,
   \* maps with keys that are not strings, between and before string keys
   <<131, 161, 97, 1, 146, 2, 3, 129, 4, 5, 161, 98, 6>>,
   <<222, 0, 2, 145, 1, 146, 2, 3, 161, 98, 5>>,
   <<222, 0, 3, 203, 64, 9, 33, 251, 84, 68, 46, 234, 1, 161, 97, 2, 195, 3, 7>>,
   <<130, 161, 97, 130, 1, 2, 161, 98, 3, 192, 4>>,
   <<129, 221, 0, 0, 0, 1, 161, 97, 5>>}

RawInputs ==
  {<<b>> : b \in 0..255}
  \cup {<<b, 192>> : b \in 0..255}
  \cup (SeqsUpTo(RawAlphabet, MaxRawLen) \ {<<>>})
  \cup {<<>>}
  \cup CraftedInputs

(***************************************************************************)
(* Encoding a Value tree with the Packer operations: the header of an      *)
(* array or map, then its elements (a Map in the key order of std::map).   *)
(***************************************************************************)
RECURSIVE LexLess(_, _)
LexLess(a, b) ==
  IF a = <<>> THEN b # <<>>
  ELSE IF b = <<>> THEN FALSE
  ELSE IF Head(a) # Head(b) THEN Head(a) < Head(b)
  ELSE LexLess(Tail(a), Tail(b))

RECURSIVE SortedKeys(_)
SortedKeys(S) ==
  IF S = {} THEN <<>>
  ELSE LET m == CHOOSE k \in S : \A o \in S \ {k} : LexLess(k, o)
       IN <<m>> \o SortedKeys(S \ {m})

RECURSIVE PackValue(_, _), PackElements(_, _), PackPairs(_, _, _)
PackValue(buf, x) ==
  CASE x[1] = "nil" -> Packer_pack_nil(buf)
    [] x[1] = "bool" -> Packer_pack_bool(buf, x[2][1])
    [] x[1] = "int" -> Packer_pack_int(buf, x[2])
    [] x[1] = "double" -> Packer_pack_double(buf, x[2])
    [] x[1] = "str" -> Packer_pack_string(buf, x[2])
    [] x[1] = "arr" -> PackElements(Packer_pack_array_header(buf, Len(x[2])), x[2])
    [] x[1] = "map" ->
         PackPairs(Packer_pack_map_header(buf, Cardinality(DOMAIN x[2])), x[2],
                   SortedKeys(DOMAIN x[2]))

PackElements(buf, a) ==
  IF a = <<>> THEN buf ELSE PackElements(PackValue(buf, Head(a)), Tail(a))

PackPairs(buf, m, keys) ==
  IF keys = <<>> THEN buf
  ELSE PackPairs(PackValue(Packer_pack_string(buf, Head(keys)), m[Head(keys)]),
                 m, Tail(keys))

(***************************************************************************)
(* The fixed-layout codec (benchmark_cstruct.cpp).  The structs are        *)
(* declared under #pragma pack(push, 1): a struct is the sequence of its   *)
(* fields with their sizes, in declaration order.                          *)
(***************************************************************************)
FlatStruct ==
  <<[f |-> "id", size |-> 4], [f |-> "value", size |-> 8], [f |-> "flag", size |-> 1],
    [f |-> "nameLen", size |-> 4]>>

ItemStruct ==
  <<[f |-> "id", size |-> 4], [f |-> "value", size |-> 8], [f |-> "nameLen", size |-> 4]>>

NestedHeader == <<[f |-> "itemCount", size |-> 4]>>

NumberArrayHeader == <<[f |-> "count", size |-> 4]>>

ObjectArrayHeader == <<[f |-> "count", size |-> 4]>>

TreeNodeHeader ==
  <<[f |-> "depth", size |-> 4], [f |-> "breadth", size |-> 4],
    [f |-> "childrenCount", size |-> 4]>>

\* the offset after the first k fields when every field is aligned to its size
RECURSIVE AlignedEnd(_, _)
AlignedEnd(S, k) ==
  IF k = 0 THEN 0
  ELSE LET before == AlignedEnd(S, k - 1)
           a == S[k].size
       IN ((before + a - 1) \div a) * a + a

\* offsetof with natural alignment instead of pack(1)
offsetof_aligned(S, f) ==
  LET k == CHOOSE i \in 1..Len(S) : S[i].f = f
  IN AlignedEnd(S, k) - S[k].size

\* the offset after the first k fields of the packed struct S
RECURSIVE PackedEnd(_, _)
PackedEnd(S, k) == IF k = 0 THEN 0 ELSE PackedEnd(S, k - 1) + S[k].size

\* sizeof(S) under pack(1)
sizeof(S) == PackedEnd(S, Len(S))

\* the offset of field f of S under pack(1)
offsetof(S, f) ==
  LET k == CHOOSE i \in 1..Len(S) : S[i].f = f
  IN PackedEnd(S, k - 1)

\* sizeof(double)
sizeof_double == 8

(***************************************************************************)
(* Stores of the wasm32 build: little-endian.                              *)
(***************************************************************************)
Reverse(s) == [i \in 1..Len(s) |-> s[Len(s) + 1 - i]]

\* the 4 bytes of an int32_t in memory
LE32(n) ==
  IF n >= 0
  THEN <<n % 256, ShrByte(n, 256), ShrByte(n, 65536), ShrByte(n, 16777216)>>
  ELSE LET m == (n + 2147483647) + 1
       IN <<m % 256, ShrByte(m, 256), ShrByte(m, 65536), 128 + ShrByte(m, 16777216)>>

\* the 8 bytes of a double in memory, from its bit pattern (most significant
\* byte first)
LEDouble(bits) == Reverse(bits)

\* the bit pattern of the literal 3.14159265359
PiBits == <<64, 9, 33, 251, 84, 68, 46, 234>>

\* the bit pattern of the double n / 2, n >= 0: static_cast<double>(i) * 1.5
\* is DoubleOfHalves(3 * i), static_cast<double>(i) * 2.5 is
\* DoubleOfHalves(5 * i), both exact
DoubleOfHalves(n) ==
  IF n = 0 THEN Zeros(8)
  ELSE LET p == HighBit(n)
       IN BytesOfBits(<<0>> \o Bits(1022 + p, 11) \o Bits(n - Pow2(p), p) \o Zeros(52 - p))

\* the bit pattern of static_cast<double>(i) * 0.5 + std::sin(static_cast<double>(i))
NumberAt(i) ==
  CASE i = 0 -> <<0, 0, 0, 0, 0, 0, 0, 0>>
    [] i = 1 -> <<63, 245, 118, 170, 71, 132, 134, 119>>
    [] i = 2 -> <<63, 254, 140, 123, 117, 104, 218, 35>>
    [] i = 3 -> <<63, 250, 66, 7, 13, 182, 218, 171>>
    [] i = 4 -> <<63, 243, 228, 35, 17, 17, 240, 169>>

\* std::to_string(i), i >= 0
RECURSIVE to_string(_)
to_string(i) == IF i < 10 THEN <<48 + i>> ELSE to_string(i \div 10) \o <<48 + (i % 10)>>

\* "item_" and "object_"
ItemPrefix == <<105, 116, 101, 109, 95>>

ObjectPrefix == <<111, 98, 106, 101, 99, 116, 95>>

(***************************************************************************)
(* Memory written through a raw pointer into the vector's storage: the     *)
(* bytes of the storage, whether a store fell outside it (undefined        *)
(* behaviour: the heap is corrupted), and the end of the highest store.    *)
(***************************************************************************)
Memory(bytes) == [buf |-> bytes, oob |-> FALSE, hi |-> 0]

\* store `bytes` at offset off; a store that falls outside the storage is
\* undefined behaviour: oob records it, and the stores are not followed any
\* further
Store(mem, off, bytes) ==
  IF Len(bytes) = 0 THEN mem
  ELSE IF off < 0 \/ off + Len(bytes) > Len(mem.buf) THEN [mem EXCEPT !.oob = TRUE]
  ELSE [mem EXCEPT
          !.buf = SubSeq(@, 1, off) \o bytes \o SubSeq(@, off + Len(bytes) + 1, Len(@)),
          !.hi = IF off + Len(bytes) > @ THEN off + Len(bytes) ELSE @]

\* header->f = ... for the struct S at offset base
StoreField(mem, base, S, f, bytes) == Store(mem, base + offsetof(S, f), bytes)

(***************************************************************************)
(* std::vector<uint8_t>: its elements, its capacity and the address of its *)
(* storage (the number of the allocation).  resize keeps the elements that *)
(* remain, zero-fills the new ones, and moves the storage when the         *)
(* capacity does not suffice (libc++ grows to max(2 * capacity, n)).       *)
(***************************************************************************)
EmptyVector == [buf |-> <<>>, cap |-> 0, addr |-> 0]

\* a resize that never drops elements
vector_resize_grow_only(v, n) ==
  IF n <= Len(v.buf) THEN v
  ELSE [buf |-> v.buf \o Zeros(n - Len(v.buf)),
        cap |-> IF n <= v.cap THEN v.cap ELSE n,
        addr |-> IF n <= v.cap THEN v.addr ELSE v.addr + 1]

vector_resize(v, n) ==
  LET kept == IF n <= Len(v.buf) THEN SubSeq(v.buf, 1, n)
              ELSE v.buf \o Zeros(n - Len(v.buf))
  IN IF n <= v.cap THEN [v EXCEPT !.buf = kept]
     ELSE [buf |-> kept, cap |-> IF 2 * v.cap > n THEN 2 * v.cap ELSE n,
           addr |-> v.addr + 1]

\* What a generate call leaves: the vector, the size it computed, what its
\* stores did (the end of the highest one, whether one fell outside), and
\* the final value of its write offset.
Generated(v, totalSize, mem, offset) ==
  [v |-> [v EXCEPT !.buf = mem.buf], totalSize |-> totalSize, written |-> mem.hi,
   oob |-> mem.oob, offset |-> offset]

(***************************************************************************)
(* size_t on wasm32: 32 bits, unsigned, arithmetic modulo 2^32.  A size_t  *)
(* is held as the int of the same 32 bits: n >= 0 is the size n, n < 0 the *)
(* size 2^32 + n, which is 2^31 or more.                                   *)
(***************************************************************************)
\* a + b on size_t, a a sizeof, b a size_t (an int converts to the size_t
\* of the same bits)
size_t_plus(a, b) ==
  IF b > 2147483647 - a
  THEN (b - 2147483647 - 1) + (a - 2147483647 - 1)
  ELSE a + b

\* n * k on size_t, k a sizeof that is a power of 2
size_t_times(n, k) ==
  LET q == (1073741824 \div k) * 4      \* 2^32 / k
      r == n % q
  IN IF r < q \div 2 THEN r * k ELSE (r - q) * k

\* g_buffer.resize(n) throws std::length_error when n exceeds max_size(),
\* which is 2^31 - 1 for a vector of bytes
resize_throws(n) == n < 0

(***************************************************************************)
(* The generate*CStruct functions, applied to the vector v (g_buffer).     *)
(***************************************************************************)
generateFlatCStruct_of(v, nameLen) ==
  LET totalSize == size_t_plus(sizeof(FlatStruct), nameLen)
      v1 == vector_resize(v, totalSize)
      m1 == StoreField(Memory(v1.buf), 0, FlatStruct, "id", LE32(42))
      m2 == StoreField(m1, 0, FlatStruct, "value", LEDouble(PiBits))
      m3 == StoreField(m2, 0, FlatStruct, "flag", <<1>>)
      m4 == StoreField(m3, 0, FlatStruct, "nameLen", LE32(nameLen))
      \* std::memset(ptr + sizeof(FlatStruct), 'x', nameLen): the count is a
      \* size_t, 2^32 + nameLen bytes when nameLen < 0
      m5 == IF nameLen < 0 THEN [m4 EXCEPT !.oob = TRUE]
            ELSE Store(m4, sizeof(FlatStruct), StrX(nameLen))
  IN Generated(v1, totalSize, m5, sizeof(FlatStruct) + nameLen)

\* std::string name = "item_" + std::to_string(i) / "object_" + ...
NameOf(fn, i) == (IF fn = "nested" THEN ItemPrefix ELSE ObjectPrefix) \o to_string(i)

\* twice the factor of item->value: i * 1.5 and i * 2.5
HalvesOf(fn) == IF fn = "nested" THEN 3 ELSE 5

\* the header struct of the record and its count field
HeaderOf(fn) ==
  CASE fn = "nested" -> NestedHeader
    [] fn = "numbers" -> NumberArrayHeader
    [] fn = "objects" -> ObjectArrayHeader

\* a sizing pass that takes every name to be as long as the first
SizeItem_of_first_name(fn, i, totalSize) ==
  totalSize + sizeof(ItemStruct) + Len(NameOf(fn, 0))

\* the body of the sizing loop for item i
SizeItem_of(fn, i, totalSize) == totalSize + sizeof(ItemStruct) + Len(NameOf(fn, i))

\* the body of the writing loop for item i at `offset`: the memory after
\* it and the new offset
WriteItem_of(mem, fn, i, offset) ==
  LET name == NameOf(fn, i)
      m1 == StoreField(mem, offset, ItemStruct, "id", LE32(i))
      m2 == StoreField(m1, offset, ItemStruct, "value",
                       LEDouble(DoubleOfHalves(HalvesOf(fn) * i)))
      m3 == StoreField(m2, offset, ItemStruct, "nameLen", LE32(Len(name)))
      \* std::memcpy(ptr + offset, name.c_str(), name.length())
      m4 == Store(m3, offset + sizeof(ItemStruct), name)
  IN [mem |-> m4, offset |-> offset + sizeof(ItemStruct) + Len(name)]

\* g_buffer.resize(totalSize); the header with its count: the vector and
\* the memory after them
Allocated(v, fn, count, totalSize) ==
  LET v1 == vector_resize(v, totalSize)
      m1 == StoreField(Memory(v1.buf), 0, HeaderOf(fn), HeaderOf(fn)[1].f, LE32(count))
  IN [v |-> [v1 EXCEPT !.buf = m1.buf], mem |-> m1]

\* numbers[i] = ...
WriteNumber_of(mem, i) ==
  Store(mem, sizeof(NumberArrayHeader) + i * sizeof_double, LEDouble(NumberAt(i)))

\* a size pass that counts the children of a node once whatever the breadth
RECURSIVE calculateTreeSize_one_child(_, _)
calculateTreeSize_one_child(depth, breadth) ==
  sizeof(TreeNodeHeader)
    + (IF depth > 0 THEN calculateTreeSize_one_child(depth - 1, breadth) ELSE 0)

\* static size_t calculateTreeSize(int depth, int breadth), and its loop
\* from child i with `size` accumulated
RECURSIVE calculateTreeSize(_, _), CalcChildren(_, _, _, _)
calculateTreeSize(depth, breadth) ==
  LET size == sizeof(TreeNodeHeader)
  IN IF depth > 0 THEN CalcChildren(size, 0, depth, breadth) ELSE size

CalcChildren(size, i, depth, breadth) ==
  IF i >= breadth THEN size
  ELSE CalcChildren(size + calculateTreeSize(depth - 1, breadth), i + 1, depth, breadth)

\* static size_t buildTreeCStruct(uint8_t* ptr, int depth, int breadth): the
\* memory after it and the number of bytes it returns; ptr is an offset
\* into the storage
RECURSIVE buildTreeCStruct(_, _, _, _), BuildChildren(_, _, _, _, _, _)
buildTreeCStruct(mem, ptr, depth, breadth) ==
  LET m1 == StoreField(mem, ptr, TreeNodeHeader, "depth", LE32(depth))
      m2 == StoreField(m1, ptr, TreeNodeHeader, "breadth", LE32(breadth))
      offset == sizeof(TreeNodeHeader)
      m3 == StoreField(m2, ptr, TreeNodeHeader, "childrenCount",
                       LE32(IF depth > 0 THEN breadth ELSE 0))
  IN IF m3.oob \/ depth <= 0 THEN [mem |-> m3, ret |-> offset]
     ELSE BuildChildren(m3, ptr, offset, 0, depth, breadth)

BuildChildren(mem, ptr, offset, i, depth, breadth) ==
  IF i >= breadth THEN [mem |-> mem, ret |-> offset]
  ELSE LET child == buildTreeCStruct(mem, ptr + offset, depth - 1, breadth)
       IN IF child.mem.oob THEN [mem |-> child.mem, ret |-> offset + child.ret]
          ELSE BuildChildren(child.mem, ptr, offset + child.ret, i + 1, depth, breadth)

generateTreeCStruct_of(v, depth, breadth) ==
  LET totalSize == calculateTreeSize(depth, breadth)
      v1 == vector_resize(v, totalSize)
      built == buildTreeCStruct(Memory(v1.buf), 0, depth, breadth)
  IN Generated(v1, totalSize, built.mem, built.ret)

(***************************************************************************)
(* State.                                                                  *)
(*   obj, buffer    the packer object in use ("none" before construction)  *)
(*                  and its buffer member                                  *)
(*   lastOp         the last Packer operation: its name, argument and the  *)
(*                  buffer size before it                                  *)
(*   packed         the Value tree the buffer encodes (NoValue otherwise)  *)
(*   data, pos      the Unpacker's input and cursor (len is Len(data))     *)
(*   stack          the unpack() invocations in progress, innermost last   *)
(*   outcome        "none" (no Unpacker), "constructed", "running",        *)
(*                  "returned", or the exception that left unpack()        *)
(*   result         the Value the last unpack() call returned              *)
(*   calls          unpack() calls made on the Unpacker                    *)
(*   callStart      the cursor when the current call began                 *)
(*   invocations    unpack() invocations (recursive ones included) of the  *)
(*                  current call                                           *)
(*   maxRead        highest index of data read so far (-1: none)           *)
(*   inp            where data came from                                   *)
(*   access         the accessor called on result and what it yielded      *)
(*   lastMsgpack    the last generate*Msgpack call on the global packer    *)
(*                  g_packer: the function and its arguments               *)
(***************************************************************************)
VARIABLES obj, buffer, lastOp, packed, data, pos, stack, outcome, result,
          calls, callStart, invocations, maxRead, inp, access, lastMsgpack

(***************************************************************************)
(* State of the fixed-layout codec and of its callers.                     *)
(*   g_buffer       the scratch vector (elements, capacity, address)       *)
(*   g_last_size    the size the last generate call recorded               *)
(*   lastCall       the last generate call: who made it, the function and  *)
(*                  its arguments, the size it computed, what its stores   *)
(*                  did and the pointer it returned                        *)
(*   caller         per logical caller: its phase ("idle", "generated",    *)
(*                  "read"), the call it made, the pointer it was given,   *)
(*                  and what its read observed                             *)
(*   gens           generate calls made so far                             *)
(*   run            the generate call in progress: where it is ("idle":    *)
(*                  none), its caller, function and arguments, and its     *)
(*                  locals i, totalSize and offset; whether a store fell   *)
(*                  outside the storage and the end of the highest store   *)
(***************************************************************************)
VARIABLES g_buffer, g_last_size, lastCall, caller, gens, run

msgpackVars == <<obj, buffer, lastOp, packed, data, pos, stack, outcome, result,
                 calls, callStart, invocations, maxRead, inp, access, lastMsgpack>>

cstructVars == <<g_buffer, g_last_size, lastCall, caller, gens, run>>

vars == <<obj, buffer, lastOp, packed, data, pos, stack, outcome, result,
          calls, callStart, invocations, maxRead, inp, access, lastMsgpack,
          g_buffer, g_last_size, lastCall, caller, gens, run>>

Callers == {"A", "B"}

NoCall ==
  [by |-> "none", fn |-> "none", args |-> <<>>, totalSize |-> 0, written |-> 0,
   oob |-> FALSE, offset |-> 0, ptr |-> 0]

NoView == [kind |-> "none", len |-> 0, bytes |-> <<>>]

NoParse ==
  [kind |-> "none", ok |-> FALSE, items |-> <<>>, offset |-> 0, i |-> 0, itemCount |-> 0]

NotRunning ==
  [pc |-> "idle", by |-> "none", fn |-> "none", args |-> <<>>, i |-> 0,
   totalSize |-> 0, offset |-> 0, oob |-> FALSE, hi |-> 0]

Idle ==
  [phase |-> "idle", fn |-> "none", args |-> <<>>, ptr |-> 0, seen |-> NoView,
   saw |-> NoCall, parsed |-> NoParse]

\* neither a generate call nor a read loop is in progress (the module and
\* its callers run on one thread)
NoneRunning == run.pc = "idle" /\ \A c \in Callers : caller[c].phase # "reading"

\* the codec before its first call: static std::vector<uint8_t> g_buffer;
\* static size_t g_last_size = 0;
CStructStart ==
  /\ g_buffer = EmptyVector
  /\ g_last_size = 0
  /\ lastCall = NoCall
  /\ caller = [c \in Callers |-> Idle]
  /\ gens = 0
  /\ run = NotRunning

\* no generate*Msgpack call yet (over: the bytes g_packer held when the call
\* began)
NoMsgpack == [fn |-> "none", args |-> <<>>, over |-> 0]

\* the serialization layer before any object is constructed
MsgpackStart ==
  /\ obj = "none"
  /\ buffer = <<>>
  /\ lastOp = [op |-> "none", arg |-> <<>>, start |-> 0]
  /\ packed = NoValue
  /\ data = <<>>
  /\ pos = 0
  /\ stack = <<>>
  /\ outcome = "none"
  /\ result = NoValue
  /\ calls = 0
  /\ callStart = 0
  /\ invocations = 0
  /\ maxRead = -1
  /\ inp = [kind |-> "none", elen |-> 0]
  /\ access = [name |-> "none", arg |-> <<>>, res |-> Got(<<>>)]
  /\ lastMsgpack = NoMsgpack

packerVars == <<obj, buffer, lastOp, packed, lastMsgpack>>

unpackerVars == <<data, pos, stack, outcome, result, calls, callStart, invocations,
                  maxRead, inp>>

len == Len(data)

NoOp == [op |-> "none", arg |-> <<>>, start |-> 0]

NoAccess == [name |-> "none", arg |-> <<>>, res |-> Got(<<>>)]

Init ==
  /\ obj = "none"
  /\ buffer = <<>>
  /\ lastOp = NoOp
  /\ packed = NoValue
  /\ data = <<>>
  /\ pos = 0
  /\ stack = <<>>
  /\ outcome = "none"
  /\ result = NoValue
  /\ calls = 0
  /\ callStart = 0
  /\ invocations = 0
  /\ maxRead = -1
  /\ inp = [kind |-> "none", elen |-> 0]
  /\ access = NoAccess
  /\ lastMsgpack = NoMsgpack
  /\ CStructStart

(***************************************************************************)
(* The packers.                                                            *)
(***************************************************************************)
\* msgpack_lite::Packer pk;  or the MsgpackPacker
NewPacker(cls) ==
  /\ obj = "none"
  /\ outcome = "none"
  /\ obj' = cls
  /\ buffer' = <<>>
  /\ UNCHANGED <<lastOp, packed, access, lastMsgpack>>
  /\ UNCHANGED unpackerVars
  /\ UNCHANGED cstructVars

CanPack ==
  /\ obj # "none"
  /\ packed = NoValue
  /\ outcome = "none"
  /\ Len(buffer) <= MaxPrefixLen

Packed(name, arg, newBuffer) ==
  /\ buffer' = newBuffer
  /\ lastOp' = [op |-> name, arg |-> arg, start |-> Len(buffer)]
  /\ UNCHANGED <<obj, packed, access, lastMsgpack>>
  /\ UNCHANGED unpackerVars
  /\ UNCHANGED cstructVars

pack_nil ==
  /\ CanPack
  /\ Packed("nil", <<>>,
            IF obj = "Packer" THEN Packer_pack_nil(buffer)
            ELSE MsgpackPacker_pack_nil(buffer))

pack_true ==
  /\ CanPack
  /\ Packed("true", <<>>,
            IF obj = "Packer" THEN Packer_pack_true(buffer)
            ELSE MsgpackPacker_pack_true(buffer))

pack_false ==
  /\ CanPack
  /\ Packed("false", <<>>,
            IF obj = "Packer" THEN Packer_pack_false(buffer)
            ELSE MsgpackPacker_pack_false(buffer))

pack_bool(v) ==
  /\ CanPack
  /\ Packed("bool", <<v>>,
            IF obj = "Packer" THEN Packer_pack_bool(buffer, v)
            ELSE MsgpackPacker_pack_bool(buffer, v))

pack_int(v) ==
  /\ CanPack
  /\ Packed("int", v,
            IF obj = "Packer" THEN Packer_pack_int(buffer, v)
            ELSE MsgpackPacker_pack_int(buffer, v))

pack_double(v) ==
  /\ CanPack
  /\ Packed("double", v,
            IF obj = "Packer" THEN Packer_pack_double(buffer, v)
            ELSE MsgpackPacker_pack_double(buffer, v))

\* the argument is std::string(n, 'x'); lastOp keeps n
pack_string(n) ==
  /\ CanPack
  /\ Packed("string", <<n>>,
            IF obj = "Packer" THEN Packer_pack_string(buffer, StrX(n))
            ELSE MsgpackPacker_pack_string(buffer, StrX(n)))

pack_array_header(size) ==
  /\ CanPack
  /\ Packed("array_header", <<size>>,
            IF obj = "Packer" THEN Packer_pack_array_header(buffer, size)
            ELSE MsgpackPacker_pack_array_header(buffer, size))

pack_map_header(size) ==
  /\ CanPack
  /\ Packed("map_header", <<size>>,
            IF obj = "Packer" THEN Packer_pack_map_header(buffer, size)
            ELSE MsgpackPacker_pack_map_header(buffer, size))

\* A caller encodes the Value tree x into a fresh msgpack_lite::Packer.
EncodeValue ==
  /\ obj = "Packer"
  /\ buffer = <<>>
  /\ packed = NoValue
  /\ outcome = "none"
  /\ \E x \in Values :
       /\ buffer' = PackValue(buffer, x)
       /\ packed' = x
  /\ UNCHANGED <<obj, lastOp, access, lastMsgpack>>
  /\ UNCHANGED unpackerVars
  /\ UNCHANGED cstructVars

\* a clear() that leaves the buffer as it is
MsgpackPacker_clear_keep(buf) == buf

\* void clear() { buffer.clear(); }
MsgpackPacker_clear(buf) == <<>>

\* a flat record whose pairs are emitted in the order of their keys
generateFlatMsgpack_sorted(nameLen) ==
  LET b1 == MsgpackPacker_pack_map_header(MsgpackPacker_clear(buffer), 4)
      b2 == MsgpackPacker_pack_true(MsgpackPacker_pack_string(b1, <<102, 108, 97, 103>>))
      b3 == MsgpackPacker_pack_int(MsgpackPacker_pack_string(b2, <<105, 100>>), I64(42))
      b4 == MsgpackPacker_pack_string(
              MsgpackPacker_pack_string(b3, <<110, 97, 109, 101>>), StrX(nameLen))
  IN MsgpackPacker_pack_double(
       MsgpackPacker_pack_string(b4, <<118, 97, 108, 117, 101>>), PiBits)

\* what generateFlatMsgpack(nameLen) leaves in g_packer: clear(), then the
\* map header and the four pairs "id", "name", "value", "flag"
generateFlatMsgpack_of(nameLen) ==
  LET b1 == MsgpackPacker_pack_map_header(MsgpackPacker_clear(buffer), 4)
      b2 == MsgpackPacker_pack_int(MsgpackPacker_pack_string(b1, <<105, 100>>), I64(42))
      b3 == MsgpackPacker_pack_string(
              MsgpackPacker_pack_string(b2, <<110, 97, 109, 101>>), StrX(nameLen))
      b4 == MsgpackPacker_pack_double(
              MsgpackPacker_pack_string(b3, <<118, 97, 108, 117, 101>>), PiBits)
  IN MsgpackPacker_pack_true(MsgpackPacker_pack_string(b4, <<102, 108, 97, 103>>))

\* A generate*Msgpack call on the global g_packer leaves newBuffer in it and
\* returns g_packer.data(); last: its last Packer operation and the bytes
\* that operation appended.
GeneratesMsgpack(fn, args, newBuffer, last) ==
  /\ obj \in {"none", "g_packer"}
  /\ outcome = "none"
  /\ obj' = "g_packer"
  /\ buffer' = newBuffer
  /\ lastOp' = [op |-> last.op, arg |-> last.arg, start |-> Len(newBuffer) - last.len]
  /\ lastMsgpack' = [fn |-> fn, args |-> args, over |-> Len(buffer)]
  /\ UNCHANGED <<packed, access>>
  /\ UNCHANGED unpackerVars
  /\ UNCHANGED cstructVars

\* const uint8_t* generateFlatMsgpack(int nameLen) on the global g_packer;
\* its last operation is pack_true
generateFlatMsgpack(nameLen) ==
  GeneratesMsgpack("generateFlatMsgpack", <<nameLen>>, generateFlatMsgpack_of(nameLen),
                   [op |-> "true", arg |-> <<>>, len |-> 1])

\* the key strings of the records
KeyData == <<100, 97, 116, 97>>

KeyItems == <<105, 116, 101, 109, 115>>

KeyId == <<105, 100>>

KeyName == <<110, 97, 109, 101>>

KeyValue == <<118, 97, 108, 117, 101>>

KeyDepth == <<100, 101, 112, 116, 104>>

KeyBreadth == <<98, 114, 101, 97, 100, 116, 104>>

KeyChildren == <<99, 104, 105, 108, 100, 114, 101, 110>>

\* the body of the loop of generateNestedMsgpack / generateObjectArrayMsgpack
\* for item i: a map of 3 pairs "id", "name", "value"
PackItemMsgpack(buf, fn, i) ==
  LET b1 == MsgpackPacker_pack_map_header(buf, 3)
      b2 == MsgpackPacker_pack_int(MsgpackPacker_pack_string(b1, KeyId), I64(i))
      b3 == MsgpackPacker_pack_string(MsgpackPacker_pack_string(b2, KeyName),
                                      NameOf(fn, i))
  IN MsgpackPacker_pack_double(MsgpackPacker_pack_string(b3, KeyValue),
                               DoubleOfHalves(HalvesOf(fn) * i))

\* for (int i = 0; i < count; i++) { ... } from item i
RECURSIVE PackItemsMsgpack(_, _, _, _)
PackItemsMsgpack(buf, fn, i, count) ==
  IF i >= count THEN buf
  ELSE LET packed_i == PackItemMsgpack(buf, fn, i)
       IN IF Len(packed_i) > Len(buf)   \* every item appends
          THEN PackItemsMsgpack(packed_i, fn, i + 1, count)
          ELSE packed_i

\* what generateNestedMsgpack(itemCount) leaves in g_packer
generateNestedMsgpack_of(itemCount) ==
  LET b1 == MsgpackPacker_pack_map_header(MsgpackPacker_clear(buffer), 1)
      b2 == MsgpackPacker_pack_string(b1, KeyData)
      b3 == MsgpackPacker_pack_map_header(b2, 1)
      b4 == MsgpackPacker_pack_string(b3, KeyItems)
      b5 == MsgpackPacker_pack_array_header(b4, itemCount)
  IN PackItemsMsgpack(b5, "nested", 0, itemCount)

\* the loop of generateNumberArrayMsgpack from number i
RECURSIVE PackNumbersMsgpack(_, _, _)
PackNumbersMsgpack(buf, i, count) ==
  IF i >= count THEN buf
  ELSE LET packed_i == MsgpackPacker_pack_double(buf, NumberAt(i))
       IN IF Len(packed_i) > Len(buf)   \* every number appends
          THEN PackNumbersMsgpack(packed_i, i + 1, count)
          ELSE packed_i

\* what generateNumberArrayMsgpack(count) leaves in g_packer
generateNumberArrayMsgpack_of(count) ==
  PackNumbersMsgpack(
    MsgpackPacker_pack_array_header(MsgpackPacker_clear(buffer), count), 0, count)

\* what generateObjectArrayMsgpack(count) leaves in g_packer
generateObjectArrayMsgpack_of(count) ==
  PackItemsMsgpack(
    MsgpackPacker_pack_array_header(MsgpackPacker_clear(buffer), count),
    "objects", 0, count)

\* static void buildTreeMsgpack(MsgpackPacker& packer, int depth, int
\* breadth): the buffer of packer after it; and its loop from child i
RECURSIVE buildTreeMsgpack(_, _, _), BuildChildrenMsgpack(_, _, _, _)
buildTreeMsgpack(packer, depth, breadth) ==
  LET b1 == MsgpackPacker_pack_map_header(packer, IF depth > 0 THEN 3 ELSE 2)
      b2 == MsgpackPacker_pack_int(MsgpackPacker_pack_string(b1, KeyDepth), I64(depth))
      b3 == MsgpackPacker_pack_int(MsgpackPacker_pack_string(b2, KeyBreadth),
                                   I64(breadth))
  IN IF depth > 0
     THEN BuildChildrenMsgpack(
            MsgpackPacker_pack_array_header(
              MsgpackPacker_pack_string(b3, KeyChildren), breadth),
            0, depth, breadth)
     ELSE b3

BuildChildrenMsgpack(packer, i, depth, breadth) ==
  IF i >= breadth THEN packer
  ELSE LET child == buildTreeMsgpack(packer, depth - 1, breadth)
       IN IF Len(child) > Len(packer)   \* every child appends
          THEN BuildChildrenMsgpack(child, i + 1, depth, breadth)
          ELSE child

\* what generateTreeMsgpack(depth, breadth) leaves in g_packer
generateTreeMsgpack_of(depth, breadth) ==
  buildTreeMsgpack(MsgpackPacker_clear(buffer), depth, breadth)

\* size_t getLastMsgpackLength() { return g_packer.size(); }
getLastMsgpackLength == Len(buffer)

\* the last Packer operation of a loop over `count` items ending with
\* pack_double(v), or the array header when the loop does not run
LastOfLoop(count, v) ==
  IF count > 0 THEN [op |-> "double", arg |-> v, len |-> 9]
  ELSE [op |-> "array_header", arg |-> <<count>>, len |-> 1]

\* const uint8_t* generateNestedMsgpack(int itemCount)
generateNestedMsgpack(itemCount) ==
  GeneratesMsgpack("generateNestedMsgpack", <<itemCount>>,
                   generateNestedMsgpack_of(itemCount),
                   LastOfLoop(itemCount, DoubleOfHalves(3 * (itemCount - 1))))

\* const uint8_t* generateNumberArrayMsgpack(int count)
generateNumberArrayMsgpack(count) ==
  GeneratesMsgpack("generateNumberArrayMsgpack", <<count>>,
                   generateNumberArrayMsgpack_of(count),
                   LastOfLoop(count, NumberAt(count - 1)))

\* const uint8_t* generateObjectArrayMsgpack(int count)
generateObjectArrayMsgpack(count) ==
  GeneratesMsgpack("generateObjectArrayMsgpack", <<count>>,
                   generateObjectArrayMsgpack_of(count),
                   LastOfLoop(count, DoubleOfHalves(5 * (count - 1))))

\* const uint8_t* generateTreeMsgpack(int depth, int breadth); its last
\* operation is the pack_int(breadth) of the last leaf, or the header of an
\* empty children array
generateTreeMsgpack(depth, breadth) ==
  GeneratesMsgpack("generateTreeMsgpack", <<depth, breadth>>,
                   generateTreeMsgpack_of(depth, breadth),
                   IF depth > 0 /\ breadth = 0
                   THEN [op |-> "array_header", arg |-> <<0>>, len |-> 1]
                   ELSE [op |-> "int", arg |-> I64(breadth), len |-> 1])

(***************************************************************************)
(* The Unpacker.  A frame of stack is one invocation of unpack():          *)
(*   [k |-> "unpack"]                        entered, tag byte not read    *)
(*   [k |-> "read", kind, n, acc]            n more bytes to read for the  *)
(*                                           branch, acc read so far       *)
(*   [k |-> "arr", size, arr]                in the loop of an array       *)
(*   [k |-> "map", size, i, m, st, key]      in the loop of a map, before  *)
(*                                           the key (st = "key") or the   *)
(*                                           value (st = "val") of pair i  *)
(***************************************************************************)
UnpackFrame == [k |-> "unpack"]

ReadFrame(kind, n) == [k |-> "read", kind |-> kind, n |-> n, acc |-> <<>>]

ArrFrame(size) == [k |-> "arr", size |-> size, arr |-> <<>>]

MapFrame(size) ==
  [k |-> "map", size |-> size, i |-> 0, m |-> EmptyMap, st |-> "key", key |-> VNil]

Top == stack[Len(stack)]

Rest == SubSeq(stack, 1, Len(stack) - 1)

\* What a step of unpack() does next: return a Value, go on in a frame, or
\* let an exception leave.
Return(val) == [do |-> "return", val |-> val]

Goto(frame) == [do |-> "frame", frame |-> frame]

Raise(e) == [do |-> "raise", e |-> e]

\* read_string(length): the loop reads length bytes
StringBody(length) ==
  IF length = 0 THEN Return(VStr(<<>>)) ELSE Goto(ReadFrame("strbody", length))

\* Array arr; arr.reserve(size); then the loop (count: the bytes of size)
ArrayOf(count) ==
  IF reserve_throws(count) THEN Raise("length_error")
  ELSE Goto(ArrFrame(UIntOf(count)))

\* a default branch that rejects the tag instead
DefaultBranch_strict == Raise("unknown_tag")

\* default: return Value(nullptr);
DefaultBranch == Return(VNil)

\* the branch of unpack() for the tag byte b, after b is read
OnTag(b) ==
  LET kind == TagKind(b)
  IN CASE kind = "posfixint" -> Return(VInt(ZeroExtend(<<b>>)))
       [] kind = "negfixint" -> Return(VInt(SignExtend(<<b>>)))
       [] kind = "fixmap" -> Goto(MapFrame(BitAnd(b, 15)))
       [] kind = "fixarray" -> ArrayOf(<<BitAnd(b, 15)>>)
       [] kind = "fixstr" -> StringBody(BitAnd(b, 31))
       [] kind = "nil" -> Return(VNil)
       [] kind = "false" -> Return(VBool(FALSE))
       [] kind = "true" -> Return(VBool(TRUE))
       [] kind = "default" -> DefaultBranch
       [] OTHER -> Goto(ReadFrame(kind, PayloadLen(kind)))

\* the branch goes on once its payload bytes a are read
OnPayload(kind, a) ==
  CASE kind \in {"str8", "str16"} -> StringBody(UIntOf(a))
    [] kind \in {"array16", "array32"} -> ArrayOf(a)
    [] kind = "map16" -> Goto(MapFrame(UIntOf(a)))
    [] OTHER -> Return(ScalarOf(kind, a))

\* a loop body that keeps a pair whose key is not a string, under the key ""
Receive_keep_all(f, val) ==
  IF f.k = "arr" THEN [f EXCEPT !.arr = Append(@, val)]
  ELSE IF f.st = "key" THEN [f EXCEPT !.key = val, !.st = "val"]
  ELSE [f EXCEPT !.m = MapSet(@, IF is_string(f.key) THEN f.key[2] ELSE <<>>, val),
                 !.i = @ + 1, !.st = "key", !.key = VNil]

\* The caller frame f receives the Value val of the unpack() it called.
Receive(f, val) ==
  IF f.k = "arr" THEN [f EXCEPT !.arr = Append(@, val)]
  ELSE IF f.st = "key" THEN [f EXCEPT !.key = val, !.st = "val"]
  ELSE [f EXCEPT !.m = IF is_string(f.key) THEN MapSet(@, f.key[2], val) ELSE @,
                 !.i = @ + 1, !.st = "key", !.key = VNil]

\* The innermost invocation does `next` with the cursor at p.
Does(next, p) ==
  /\ pos' = p
  /\ IF next.do = "raise" THEN
       /\ stack' = <<>>
       /\ outcome' = next.e
       /\ result' = result
     ELSE IF next.do = "frame" THEN
       /\ stack' = Rest \o <<next.frame>>
       /\ outcome' = outcome
       /\ result' = result
     ELSE IF Len(stack) = 1 THEN
       /\ stack' = <<>>
       /\ outcome' = "returned"
       /\ result' = next.val
     ELSE
       /\ stack' = SubSeq(stack, 1, Len(stack) - 2)
                     \o <<Receive(stack[Len(stack) - 1], next.val)>>
       /\ outcome' = outcome
       /\ result' = result

\* Unpacker unpacker(d, l) on what the Packer produced, followed by t
NewUnpacker(t) ==
  /\ outcome = "none"
  /\ packed # NoValue
  /\ data' = buffer \o t
  /\ inp' = [kind |-> "encoded", elen |-> Len(buffer)]
  /\ outcome' = "constructed"
  /\ pos' = 0
  /\ UNCHANGED <<stack, result, calls, callStart, invocations, maxRead, access>>
  /\ UNCHANGED packerVars
  /\ UNCHANGED cstructVars

\* ... on the first k bytes of what the Packer produced
NewUnpackerTruncated ==
  /\ outcome = "none"
  /\ packed # NoValue
  /\ \E k \in 0..(Len(buffer) - 1) : data' = SubSeq(buffer, 1, k)
  /\ inp' = [kind |-> "truncated", elen |-> Len(buffer)]
  /\ outcome' = "constructed"
  /\ pos' = 0
  /\ UNCHANGED <<stack, result, calls, callStart, invocations, maxRead, access>>
  /\ UNCHANGED packerVars
  /\ UNCHANGED cstructVars

\* ... on bytes received from the host
NewUnpackerRaw ==
  /\ outcome = "none"
  /\ obj = "none"
  /\ \E d \in RawInputs : data' = d
  /\ inp' = [kind |-> "raw", elen |-> 0]
  /\ outcome' = "constructed"
  /\ pos' = 0
  /\ UNCHANGED <<stack, result, calls, callStart, invocations, maxRead, access>>
  /\ UNCHANGED packerVars
  /\ UNCHANGED cstructVars

\* the caller calls unpacker.unpack()
CallUnpack ==
  /\ outcome \in {"constructed", "returned"}
  /\ access = NoAccess
  /\ calls < MaxCalls
  /\ stack' = <<UnpackFrame>>
  /\ outcome' = "running"
  /\ calls' = calls + 1
  /\ callStart' = pos
  /\ invocations' = 1
  /\ UNCHANGED <<data, pos, result, maxRead, inp, access>>
  /\ UNCHANGED packerVars
  /\ UNCHANGED cstructVars

\* uint8_t b = read_byte(); and the branch on b
ReadTag ==
  /\ outcome = "running"
  /\ Top.k = "unpack"
  /\ LET r == read_byte(data, len, pos)
     IN /\ Does(IF r.throw THEN Raise("end_of_data") ELSE OnTag(r.b), r.pos)
        /\ maxRead' = IF r.throw \/ pos <= maxRead THEN maxRead ELSE pos
  /\ UNCHANGED <<data, calls, callStart, invocations, inp, access>>
  /\ UNCHANGED packerVars
  /\ UNCHANGED cstructVars

\* one read_byte() of read_uint16 / read_uint32 / read_double / read_string ...
ReadPayload ==
  /\ outcome = "running"
  /\ Top.k = "read"
  /\ LET r == read_byte(data, len, pos)
         a == Append(Top.acc, r.b)
     IN /\ Does(IF r.throw THEN Raise("end_of_data")
                ELSE IF Top.n > 1 THEN Goto([Top EXCEPT !.n = @ - 1, !.acc = a])
                ELSE OnPayload(Top.kind, a),
                r.pos)
        /\ maxRead' = IF r.throw \/ pos <= maxRead THEN maxRead ELSE pos
  /\ UNCHANGED <<data, calls, callStart, invocations, inp, access>>
  /\ UNCHANGED packerVars
  /\ UNCHANGED cstructVars

\* the loop of an array or map calls unpack() for the next element, key or value
CallNested ==
  /\ outcome = "running"
  /\ Top.k \in {"arr", "map"}
  /\ IF Top.k = "arr" THEN Len(Top.arr) < Top.size
     ELSE Top.st = "val" \/ Top.i < Top.size
  /\ stack' = Append(stack, UnpackFrame)
  /\ invocations' = invocations + 1
  /\ UNCHANGED <<data, pos, outcome, result, calls, callStart, maxRead, inp, access>>
  /\ UNCHANGED packerVars
  /\ UNCHANGED cstructVars

\* the loop is over: return Value(std::move(arr)) / Value(std::move(m))
ReturnContainer ==
  /\ outcome = "running"
  /\ Top.k \in {"arr", "map"}
  /\ IF Top.k = "arr" THEN Len(Top.arr) >= Top.size
     ELSE Top.st = "key" /\ Top.i >= Top.size
  /\ Does(Return(IF Top.k = "arr" THEN VArr(Top.arr) ELSE VMap(Top.m)), pos)
  /\ UNCHANGED <<data, calls, callStart, invocations, maxRead, inp, access>>
  /\ UNCHANGED packerVars
  /\ UNCHANGED cstructVars

\* the caller applies a typed accessor to the Value unpack() returned
Access(name) ==
  /\ outcome = "returned"
  /\ access = NoAccess
  /\ access' = [name |-> name, arg |-> <<>>,
                res |-> CASE name = "as_bool" -> as_bool(result)
                          [] name = "as_int" -> as_int(result)
                          [] name = "as_double" -> as_double(result)
                          [] name = "as_string" -> as_string(result)
                          [] name = "as_array" -> as_array(result)
                          [] name = "as_map" -> as_map(result)]
  /\ UNCHANGED packerVars
  /\ UNCHANGED unpackerVars
  /\ UNCHANGED cstructVars

Accessors == {"as_bool", "as_int", "as_double", "as_string", "as_array", "as_map"}

\* keys and indices the caller asks for: 'a', "bc", "id", 'z'; 0, 1, 2, 15, 16
AccessKeys == {<<97>>, <<98, 99>>, <<105, 100>>, <<122>>}

AccessIndices == {0, 1, 2, 15, 16}

\* the caller applies has(key), operator[](key), operator[](idx) or size()
\* to the Value unpack() returned
AccessHas(key) ==
  /\ outcome = "returned"
  /\ access = NoAccess
  /\ access' = [name |-> "has", arg |-> <<key>>, res |-> has(result, key)]
  /\ UNCHANGED packerVars
  /\ UNCHANGED unpackerVars
  /\ UNCHANGED cstructVars

AccessKey(key) ==
  /\ outcome = "returned"
  /\ access = NoAccess
  /\ access' = [name |-> "index_key", arg |-> <<key>>, res |-> index_key(result, key)]
  /\ UNCHANGED packerVars
  /\ UNCHANGED unpackerVars
  /\ UNCHANGED cstructVars

AccessIndex(idx) ==
  /\ outcome = "returned"
  /\ access = NoAccess
  /\ access' = [name |-> "index_idx", arg |-> <<idx>>, res |-> index_idx(result, idx)]
  /\ UNCHANGED packerVars
  /\ UNCHANGED unpackerVars
  /\ UNCHANGED cstructVars

AccessSize ==
  /\ outcome = "returned"
  /\ access = NoAccess
  /\ access' = [name |-> "size", arg |-> <<>>, res |-> Value_size(result)]
  /\ UNCHANGED packerVars
  /\ UNCHANGED unpackerVars
  /\ UNCHANGED cstructVars

Next ==
  \/ \E cls \in {"Packer", "MsgpackPacker"} : NewPacker(cls)
  \/ pack_nil
  \/ pack_true
  \/ pack_false
  \/ \E v \in BOOLEAN : pack_bool(v)
  \/ \E v \in IntSamples : pack_int(v)
  \/ \E v \in DoubleSamples : pack_double(v)
  \/ \E n \in StrOpLens : pack_string(n)
  \/ \E n \in CountSamples : pack_array_header(n)
  \/ \E n \in CountSamples : pack_map_header(n)
  \/ EncodeValue
  \/ \E nameLen \in FlatMsgpackArgs : generateFlatMsgpack(nameLen)
  \/ \E t \in Suffixes : NewUnpacker(t)
  \/ NewUnpackerTruncated
  \/ NewUnpackerRaw
  \/ CallUnpack
  \/ ReadTag
  \/ ReadPayload
  \/ CallNested
  \/ ReturnContainer
  \/ \E name \in Accessors : Access(name)
  \/ \E key \in AccessKeys : AccessHas(key)
  \/ \E key \in AccessKeys : AccessKey(key)
  \/ \E idx \in AccessIndices : AccessIndex(idx)
  \/ AccessSize

Spec == Init /\ [][Next]_vars

(***************************************************************************)
(* createComplexObject and countNodes (part_009): a tree encoded with the  *)
(* msgpack_lite::Packer, then decoded with the Unpacker and walked.        *)
(***************************************************************************)
\* void packComplexObject(msgpack_lite::Packer& pk, int depth, int breadth):
\* the buffer of pk after it; and its loop from child i
RECURSIVE packComplexObject(_, _, _), PackComplexChildren(_, _, _, _)
packComplexObject(pk, depth, breadth) ==
  LET b1 == Packer_pack_map_header(pk, IF depth > 0 THEN 3 ELSE 2)
      b2 == Packer_pack_int(Packer_pack_string(b1, KeyDepth), I64(depth))
      b3 == Packer_pack_int(Packer_pack_string(b2, KeyBreadth), I64(breadth))
  IN IF depth > 0
     THEN PackComplexChildren(
            Packer_pack_array_header(Packer_pack_string(b3, KeyChildren), breadth),
            0, depth, breadth)
     ELSE b3

PackComplexChildren(pk, i, depth, breadth) ==
  IF i >= breadth THEN pk
  ELSE LET child == packComplexObject(pk, depth - 1, breadth)
       IN IF Len(child) > Len(pk)   \* every child appends
          THEN PackComplexChildren(child, i + 1, depth, breadth)
          ELSE child

\* a walk that counts a node and its children, not their descendants
countNodesHelper_shallow(x) ==
  IF has(x, KeyChildren).val THEN 1 + Value_size(index_key(x, KeyChildren).val).val
  ELSE 1

\* int countNodesHelper(const msgpack_lite::Value& obj), and its loop from
\* child i with `count` accumulated
RECURSIVE countNodesHelper(_), CountChildren(_, _, _)
countNodesHelper(x) ==
  IF has(x, KeyChildren).val
  THEN CountChildren(index_key(x, KeyChildren).val, 0, 1)
  ELSE 1

CountChildren(children, i, count) ==
  IF i >= Value_size(children).val THEN count
  ELSE CountChildren(children, i + 1,
                     count + countNodesHelper(index_idx(children, i).val))

\* val createComplexObject(int depth, int breadth): msgpack_lite::Packer pk;
\* packComplexObject(pk, depth, breadth); return packToUint8Array(pk);
createComplexObject(depth, breadth) ==
  /\ obj = "none"
  /\ outcome = "none"
  /\ obj' = "Packer"
  /\ buffer' = packComplexObject(<<>>, depth, breadth)
  /\ lastOp' = [op |-> "createComplexObject", arg |-> <<depth, breadth>>, start |-> 0]
  /\ UNCHANGED <<packed, access, lastMsgpack>>
  /\ UNCHANGED unpackerVars
  /\ UNCHANGED cstructVars

\* int countNodes(val data) on the array createComplexObject returned:
\* Unpacker unpacker(buffer.data(), buffer.size()); unpacker.unpack() is
\* called
countNodes ==
  /\ lastOp.op = "createComplexObject"
  /\ outcome = "none"
  /\ data' = buffer
  /\ inp' = [kind |-> "complex", elen |-> Len(buffer)]
  /\ pos' = 0
  /\ stack' = <<UnpackFrame>>
  /\ outcome' = "running"
  /\ calls' = calls + 1
  /\ callStart' = 0
  /\ invocations' = 1
  /\ UNCHANGED <<result, maxRead, access>>
  /\ UNCHANGED packerVars
  /\ UNCHANGED cstructVars

\* return countNodesHelper(obj);
countNodesReturn ==
  /\ inp.kind = "complex"
  /\ outcome = "returned"
  /\ access = NoAccess
  /\ access' = [name |-> "countNodes", arg |-> <<>>, res |-> Got(countNodesHelper(result))]
  /\ UNCHANGED packerVars
  /\ UNCHANGED unpackerVars
  /\ UNCHANGED cstructVars

ComplexDepths == 0..3

ComplexBreadths == 0..4

ComplexNext ==
  \/ \E depth \in ComplexDepths, breadth \in ComplexBreadths :
       createComplexObject(depth, breadth)
  \/ countNodes
  \/ ReadTag
  \/ ReadPayload
  \/ CallNested
  \/ ReturnContainer
  \/ countNodesReturn

ComplexSpec == Init /\ [][ComplexNext]_vars

(***************************************************************************)
(* Sequences of generate*Msgpack calls on the global packer.               *)
(***************************************************************************)
\* item counts around the change of header form at 16 and of name length at 10
MsgpackItemCounts == {0, 1, 2, 10, 11, 15, 16, 17}

MsgpackNumberCounts == 0..5

MsgpackTreeDepths == 0..3

MsgpackTreeBreadths == 0..3

MsgpackGenNext ==
  \/ \E nameLen \in FlatMsgpackArgs : generateFlatMsgpack(nameLen)
  \/ \E itemCount \in MsgpackItemCounts : generateNestedMsgpack(itemCount)
  \/ \E count \in MsgpackNumberCounts : generateNumberArrayMsgpack(count)
  \/ \E count \in MsgpackItemCounts : generateObjectArrayMsgpack(count)
  \/ \E depth \in MsgpackTreeDepths, breadth \in MsgpackTreeBreadths :
       generateTreeMsgpack(depth, breadth)

MsgpackGenSpec == Init /\ [][MsgpackGenNext]_vars

(***************************************************************************)
(* The reader of the nested record in the calling benchmark (nested.mjs,   *)
(* part_001): typed-cstruct Struct definitions read field after field,     *)
(* little-endian, from a Uint8Array.                                       *)
(***************************************************************************)
NestedHeaderDef == <<[f |-> "itemCount", size |-> 4]>>

\* an item definition that aligns the f64 to 8 bytes
ItemStructDef_aligned ==
  <<[f |-> "id", size |-> 4], [f |-> "pad", size |-> 4], [f |-> "value", size |-> 8],
    [f |-> "nameLen", size |-> 4]>>

ItemStructDef ==
  <<[f |-> "id", size |-> 4], [f |-> "value", size |-> 8], [f |-> "nameLen", size |-> 4]>>

\* Struct.size
Struct_size(S) == PackedEnd(S, Len(S))

\* the offset at which Struct.read finds field f
Struct_offset(S, f) ==
  LET k == CHOOSE i \in 1..Len(S) : S[i].f = f
  IN PackedEnd(S, k - 1)

\* n bytes can be read at offset off of buf
InView(buf, off, n) == off >= 0 /\ off + n <= Len(buf)

\* the i32 at offset off
I32At(buf, off) ==
  buf[off + 1] + 256 * buf[off + 2] + 65536 * buf[off + 3]
    + 16777216 * (IF buf[off + 4] >= 128 THEN buf[off + 4] - 256 ELSE buf[off + 4])

\* the bit pattern of the f64 at offset off
F64At(buf, off) == Reverse(SubSeq(buf, off + 1, off + 8))

\* a relative index of Uint8Array.prototype.slice on a view of n bytes
SliceIndex(k, n) == IF k < 0 THEN (IF n + k < 0 THEN 0 ELSE n + k) ELSE IF k > n THEN n ELSE k

\* buf.slice(from, to)
Slice(buf, from, to) ==
  LET f == SliceIndex(from, Len(buf))
      e == SliceIndex(to, Len(buf))
  IN IF f >= e THEN <<>> ELSE SubSeq(buf, f + 1, e)

\* ItemStructDef.read({ buf: itemBuf }) on buf.slice(offset), and the name
\* that follows: the item and the offset after it, or a read outside the
\* view, which throws
ReadItem_of(buf, offset) ==
  LET itemBuf == Slice(buf, offset, Len(buf))
  IN IF ~InView(itemBuf, 0, Struct_size(ItemStructDef))
     THEN [ok |-> FALSE, item |-> <<>>, offset |-> offset]
     ELSE
       LET id == I32At(itemBuf, Struct_offset(ItemStructDef, "id"))
           value == F64At(itemBuf, Struct_offset(ItemStructDef, "value"))
           nameLen == I32At(itemBuf, Struct_offset(ItemStructDef, "nameLen"))
           o2 == offset + Struct_size(ItemStructDef)
       IN [ok |-> TRUE,
           item |-> [id |-> id, value |-> value, nameLen |-> nameLen,
                     name |-> Slice(buf, o2, o2 + nameLen)],
           offset |-> o2 + nameLen]

\* const header = NestedHeaderDef.read({ buf }); let offset =
\* NestedHeaderDef.size; the state of the parse before its loop
ReadHeader_of(buf) ==
  IF ~InView(buf, 0, Struct_size(NestedHeaderDef))
  THEN [kind |-> "parsed", ok |-> FALSE, items |-> <<>>, offset |-> 0, i |-> 0,
        itemCount |-> 0]
  ELSE [kind |-> "parsing", ok |-> TRUE, items |-> <<>>,
        offset |-> Struct_size(NestedHeaderDef), i |-> 0,
        itemCount |-> I32At(buf, Struct_offset(NestedHeaderDef, "itemCount"))]

\* a node header definition that reads childrenCount before breadth
TreeNodeHeaderDef_swapped ==
  <<[f |-> "depth", size |-> 4], [f |-> "childrenCount", size |-> 4],
    [f |-> "breadth", size |-> 4]>>

\* The reader of the tree record (tree.mjs): new Struct().field('depth', i32)
\* .field('breadth', i32).field('childrenCount', i32)
TreeNodeHeaderDef ==
  <<[f |-> "depth", size |-> 4], [f |-> "breadth", size |-> 4],
    [f |-> "childrenCount", size |-> 4]>>

\* function parseTreeNode(buf, offset): [node, currentOffset], or a read
\* outside the view, which throws; and its loop from child i of n
RECURSIVE parseTreeNode(_, _), ParseChildren(_, _, _, _, _)
parseTreeNode(buf, offset) ==
  LET nodeBuf == Slice(buf, offset, Len(buf))
  IN IF ~InView(nodeBuf, 0, Struct_size(TreeNodeHeaderDef))
     THEN [ok |-> FALSE, node |-> <<>>, offset |-> offset]
     ELSE
       LET depth == I32At(nodeBuf, Struct_offset(TreeNodeHeaderDef, "depth"))
           breadth == I32At(nodeBuf, Struct_offset(TreeNodeHeaderDef, "breadth"))
           childrenCount ==
             I32At(nodeBuf, Struct_offset(TreeNodeHeaderDef, "childrenCount"))
           currentOffset == offset + Struct_size(TreeNodeHeaderDef)
       IN ParseChildren(buf, [depth |-> depth, breadth |-> breadth, children |-> <<>>],
                        0, childrenCount, currentOffset)

ParseChildren(buf, node, i, n, currentOffset) ==
  IF i >= n THEN [ok |-> TRUE, node |-> node, offset |-> currentOffset]
  ELSE LET r == parseTreeNode(buf, currentOffset)
       IN IF ~r.ok THEN [ok |-> FALSE, node |-> node, offset |-> currentOffset]
          ELSE ParseChildren(buf, [node EXCEPT !.children = Append(@, r.node)],
                             i + 1, n, r.offset)

\* const [tree] = parseTreeNode(buf, 0): the state of the parse after it
ReadTree_of(buf) ==
  LET r == parseTreeNode(buf, 0)
  IN [kind |-> "parsed", ok |-> r.ok, items |-> <<r.node>>, offset |-> r.offset,
      i |-> 0, itemCount |-> 0]

(***************************************************************************)
(* The fixed-layout codec and its callers.                                 *)
(***************************************************************************)
\* a length query that answers with the capacity of the vector
getLastCStructLength_capacity == g_buffer.cap

\* size_t getLastCStructLength()
getLastCStructLength == g_last_size

\* The generate call of caller c returns g_buffer.data().
Returns(c, fn, args, v, totalSize, oob, hi, offset) ==
  /\ lastCall' = [by |-> c, fn |-> fn, args |-> args, totalSize |-> totalSize,
                  written |-> hi, oob |-> oob, offset |-> offset, ptr |-> v.addr]
  /\ caller' = [caller EXCEPT ![c] = [Idle EXCEPT !.phase = "generated", !.fn = fn,
                                                  !.args = args, !.ptr = v.addr]]
  /\ gens' = gens + 1
  /\ run' = NotRunning
  /\ UNCHANGED msgpackVars

\* the stores the call in progress made so far, on the vector's storage
RunMemory == [buf |-> g_buffer.buf, oob |-> run.oob, hi |-> run.hi]

\* The generate call of caller c ends by the exception of resize, before
\* g_last_size is assigned and before any store.
Throws(c, fn, args) ==
  /\ caller' = [caller EXCEPT ![c] = [Idle EXCEPT !.phase = "threw", !.fn = fn,
                                                  !.args = args]]
  /\ gens' = gens + 1
  /\ run' = NotRunning
  /\ UNCHANGED <<g_buffer, g_last_size, lastCall>>
  /\ UNCHANGED msgpackVars

generateFlatCStruct(c, nameLen) ==
  /\ NoneRunning
  /\ IF resize_throws(size_t_plus(sizeof(FlatStruct), nameLen))
     THEN Throws(c, "flat", <<nameLen>>)
     ELSE LET g == generateFlatCStruct_of(g_buffer, nameLen)
          IN /\ g_buffer' = g.v
             /\ g_last_size' = g.totalSize
             /\ Returns(c, "flat", <<nameLen>>, g.v, g.totalSize, g.oob, g.written,
                        g.offset)

\* size_t totalSize = sizeof(NestedHeader); before the sizing loop
generateNestedCStruct(c, itemCount) ==
  /\ NoneRunning
  /\ run' = [NotRunning EXCEPT !.pc = "sizing", !.by = c, !.fn = "nested",
                               !.args = <<itemCount>>,
                               !.totalSize = sizeof(NestedHeader)]
  /\ UNCHANGED <<g_buffer, g_last_size, lastCall, caller, gens>>
  /\ UNCHANGED msgpackVars

\* size_t totalSize = sizeof(ObjectArrayHeader); before the sizing loop
generateObjectArrayCStruct(c, count) ==
  /\ NoneRunning
  /\ run' = [NotRunning EXCEPT !.pc = "sizing", !.by = c, !.fn = "objects",
                               !.args = <<count>>,
                               !.totalSize = sizeof(ObjectArrayHeader)]
  /\ UNCHANGED <<g_buffer, g_last_size, lastCall, caller, gens>>
  /\ UNCHANGED msgpackVars

\* one iteration of the sizing loop
SizeItem ==
  /\ run.pc = "sizing"
  /\ run.i < run.args[1]
  /\ run' = [run EXCEPT !.totalSize = SizeItem_of(run.fn, run.i, @), !.i = @ + 1]
  /\ UNCHANGED <<g_buffer, g_last_size, lastCall, caller, gens>>
  /\ UNCHANGED msgpackVars

\* the sizing loop is over
AllocateItems ==
  /\ run.pc = "sizing"
  /\ run.i >= run.args[1]
  /\ run' = [run EXCEPT !.pc = "writing", !.i = 0, !.offset = sizeof(HeaderOf(run.fn)),
                        !.oob = Allocated(g_buffer, run.fn, run.args[1], run.totalSize).mem.oob,
                        !.hi = Allocated(g_buffer, run.fn, run.args[1], run.totalSize).mem.hi]
  /\ g_buffer' = Allocated(g_buffer, run.fn, run.args[1], run.totalSize).v
  /\ g_last_size' = run.totalSize
  /\ UNCHANGED <<lastCall, caller, gens>>
  /\ UNCHANGED msgpackVars

\* size_t totalSize = sizeof(NumberArrayHeader) + count * sizeof(double); ...
generateNumberArrayCStruct(c, count) ==
  /\ NoneRunning
  /\ LET totalSize == size_t_plus(sizeof(NumberArrayHeader),
                                  size_t_times(count, sizeof_double))
         a == Allocated(g_buffer, "numbers", count, totalSize)
     IN IF resize_throws(totalSize) THEN Throws(c, "numbers", <<count>>)
        ELSE /\ run' = [NotRunning EXCEPT !.pc = "writing", !.by = c, !.fn = "numbers",
                                          !.args = <<count>>, !.totalSize = totalSize,
                                          !.offset = sizeof(NumberArrayHeader),
                                          !.oob = a.mem.oob, !.hi = a.mem.hi]
             /\ g_buffer' = a.v
             /\ g_last_size' = totalSize
             /\ UNCHANGED <<lastCall, caller, gens>>
             /\ UNCHANGED msgpackVars

\* one iteration of the writing loop of the nested record or the object array
WriteItem ==
  /\ run.pc = "writing"
  /\ run.fn \in {"nested", "objects"}
  /\ run.i < run.args[1]
  /\ LET w == WriteItem_of(RunMemory, run.fn, run.i, run.offset)
     IN /\ g_buffer' = [g_buffer EXCEPT !.buf = w.mem.buf]
        /\ run' = [run EXCEPT !.i = @ + 1, !.offset = w.offset, !.oob = w.mem.oob,
                              !.hi = w.mem.hi]
  /\ UNCHANGED <<g_last_size, lastCall, caller, gens>>
  /\ UNCHANGED msgpackVars

\* one iteration of the writing loop of the number array
WriteNumber ==
  /\ run.pc = "writing"
  /\ run.fn = "numbers"
  /\ run.i < run.args[1]
  /\ ~run.oob
  /\ LET m == WriteNumber_of(RunMemory, run.i)
     IN /\ g_buffer' = [g_buffer EXCEPT !.buf = m.buf]
        /\ run' = [run EXCEPT !.i = @ + 1, !.offset = @ + sizeof_double,
                              !.oob = m.oob, !.hi = m.hi]
  /\ UNCHANGED <<g_last_size, lastCall, caller, gens>>
  /\ UNCHANGED msgpackVars

\* the writing loop is over: return ptr; (a store outside the storage is
\* undefined behaviour: the call is followed no further than that store)
ReturnPtr ==
  /\ run.pc = "writing"
  /\ run.i >= run.args[1] \/ (run.fn = "numbers" /\ run.oob)
  /\ Returns(run.by, run.fn, run.args, g_buffer, run.totalSize, run.oob, run.hi,
             run.offset)
  /\ UNCHANGED <<g_buffer, g_last_size>>

generateTreeCStruct(c, depth, breadth) ==
  /\ NoneRunning
  /\ LET g == generateTreeCStruct_of(g_buffer, depth, breadth)
     IN /\ g_buffer' = g.v
        /\ g_last_size' = g.totalSize
        /\ Returns(c, "tree", <<depth, breadth>>, g.v, g.totalSize, g.oob, g.written,
                   g.offset)

\* new Uint8Array(HEAPU8.buffer, ptr, n): what the view can show.  When ptr
\* is the vector's storage the view shows its first n bytes.  A ptr that a
\* later resize left behind points into freed storage: what is read there
\* is indeterminate, and is drawn from what the heap may hold by then
\* (cleared bytes, or the record now in the vector).
ViewsOf(ptr, n) ==
  IF ptr = g_buffer.addr /\ n <= Len(g_buffer.buf) /\ ~lastCall.oob
  THEN {[kind |-> "bytes", len |-> n, bytes |-> SubSeq(g_buffer.buf, 1, n)]}
  ELSE {[kind |-> "indeterminate", len |-> n, bytes |-> b] :
          b \in {Zeros(n), SubSeq(g_buffer.buf \o Zeros(n), 1, n)}}

\* Caller c reads back: const len = getLastCStructLength(); const buf = new
\* Uint8Array(HEAPU8.buffer, ptr, len); and, for the nested record, the
\* header of buf, for the tree record, parseTreeNode(buf, 0)
readBack(c) ==
  /\ NoneRunning
  /\ caller[c].phase = "generated"
  /\ \E view \in ViewsOf(caller[c].ptr, getLastCStructLength) :
        LET parse == IF caller[c].fn \notin {"nested", "tree"} THEN NoParse
                     ELSE IF view.kind # "bytes"
                       THEN [NoParse EXCEPT !.kind = "indeterminate"]
                     ELSE IF caller[c].fn = "tree" THEN ReadTree_of(view.bytes)
                     ELSE ReadHeader_of(view.bytes)
        IN caller' = [caller EXCEPT
             ![c].phase = IF parse.kind = "parsing" THEN "reading" ELSE "read",
             ![c].seen = view,
             ![c].saw = lastCall,
             ![c].parsed = parse]
  /\ UNCHANGED <<g_buffer, g_last_size, lastCall, gens, run>>
  /\ UNCHANGED msgpackVars

\* one iteration of the reader's loop over the items, or its end
readItem(c) ==
  /\ caller[c].phase = "reading"
  /\ LET p == caller[c].parsed
         r == ReadItem_of(caller[c].seen.bytes, p.offset)
     IN caller' = [caller EXCEPT
          ![c].phase = IF p.i < p.itemCount /\ r.ok THEN "reading" ELSE "read",
          ![c].parsed =
             IF p.i >= p.itemCount THEN [p EXCEPT !.kind = "parsed"]
             ELSE IF ~r.ok THEN [p EXCEPT !.kind = "parsed", !.ok = FALSE]
             ELSE [p EXCEPT !.items = Append(@, r.item), !.offset = r.offset,
                            !.i = @ + 1]]
  /\ UNCHANGED <<g_buffer, g_last_size, lastCall, gens, run>>
  /\ UNCHANGED msgpackVars

\* generate calls in one run of the codec's callers
MaxGenerateCalls == 2

\* arguments of the calls of the two callers
FlatArgs == {0, 1, 10}

NestedArgs == {0, 2}

NumberArgs == {0, 2}

ObjectArgs == {1}

TreeArgs == {<<0, 1>>, <<1, 2>>, <<2, 3>>}

CStructInit == MsgpackStart /\ CStructStart

CStructNext ==
  \/ \E c \in Callers, nameLen \in FlatArgs :
       gens < MaxGenerateCalls /\ generateFlatCStruct(c, nameLen)
  \/ \E c \in Callers, itemCount \in NestedArgs :
       gens < MaxGenerateCalls /\ generateNestedCStruct(c, itemCount)
  \/ \E c \in Callers, count \in NumberArgs :
       gens < MaxGenerateCalls /\ generateNumberArrayCStruct(c, count)
  \/ \E c \in Callers, count \in ObjectArgs :
       gens < MaxGenerateCalls /\ generateObjectArrayCStruct(c, count)
  \/ \E c \in Callers, a \in TreeArgs :
       gens < MaxGenerateCalls /\ generateTreeCStruct(c, a[1], a[2])
  \/ SizeItem
  \/ AllocateItems
  \/ WriteItem
  \/ WriteNumber
  \/ ReturnPtr
  \/ \E c \in Callers : readBack(c)
  \/ \E c \in Callers : readItem(c)

\* The codec driven by two logical callers.
CStructSpec == CStructInit /\ [][CStructNext]_vars

(***************************************************************************)
(* One generate call and its read, over the whole range of arguments, on   *)
(* a scratch vector left by an earlier call.                               *)
(***************************************************************************)
WideFlatArgs == {0, 1, 10, 100, 300}

WideNestedArgs == {0, 1, 2, 9, 10, 11, 50, 100, 101}

WideNumberArgs == {0, 1, 2, 5}

WideObjectArgs == {0, 1, 10, 11, 100, 101}

TreeDepths == 0..5

TreeBreadths == 1..3

\* g_buffer before the call: never used, after a 20-byte record, after a
\* 5017-byte record
PriorVectors ==
  {EmptyVector, generateFlatCStruct_of(EmptyVector, 3).v,
   generateFlatCStruct_of(EmptyVector, 5000).v}

GenInit ==
  /\ MsgpackStart
  /\ g_buffer \in PriorVectors
  /\ g_last_size = Len(g_buffer.buf)
  /\ lastCall = NoCall
  /\ caller = [c \in Callers |-> Idle]
  /\ gens = 0
  /\ run = NotRunning

GenNext ==
  \/ \E nameLen \in WideFlatArgs : gens = 0 /\ generateFlatCStruct("A", nameLen)
  \/ \E itemCount \in WideNestedArgs : gens = 0 /\ generateNestedCStruct("A", itemCount)
  \/ \E count \in WideNumberArgs : gens = 0 /\ generateNumberArrayCStruct("A", count)
  \/ \E count \in WideObjectArgs : gens = 0 /\ generateObjectArrayCStruct("A", count)
  \/ \E depth \in TreeDepths, breadth \in TreeBreadths :
       gens = 0 /\ generateTreeCStruct("A", depth, breadth)
  \/ SizeItem
  \/ AllocateItems
  \/ WriteItem
  \/ WriteNumber
  \/ ReturnPtr
  \/ readBack("A")
  \/ readItem("A")

GenSpec == GenInit /\ [][GenNext]_vars

(***************************************************************************)
(* generateFlatCStruct and generateNumberArrayCStruct over the range of    *)
(* int: negative arguments, and counts whose size wraps around 2^32.       *)
(***************************************************************************)
\* -18 and -2147483648: the size is 2^31 or more; -17 and -1: the size is
\* 0 and 16
IntFlatArgs == {-2147483647 - 1, -18, -17, -1, 0, 1, 10, 100, 300}

\* 536870912 = 2^29: count * sizeof(double) is 0 modulo 2^32
IntNumberArgs ==
  {-2147483647 - 1, -536870912, -536870911, -1, 0, 1, 2, 5, 536870912, 536870913}

IntNext ==
  \/ \E nameLen \in IntFlatArgs : gens = 0 /\ generateFlatCStruct("A", nameLen)
  \/ \E count \in IntNumberArgs : gens = 0 /\ generateNumberArrayCStruct("A", count)
  \/ WriteNumber
  \/ ReturnPtr
  \/ readBack("A")

IntSpec == GenInit /\ [][IntNext]_vars

(***************************************************************************)
(* Properties.                                                             *)
(***************************************************************************)
\* the bytes the last Packer operation appended
Emitted == SubSeq(buffer, lastOp.start + 1, Len(buffer))

\* an unpack() call has ended, by return or by exception
Ended == outcome \notin {"none", "constructed", "running"}

\* the leading tag byte of the current (or last) unpack() call
LeadingTag == data[callStart + 1]

\* n as 2 and as 4 big-endian bytes, n >= 0
BE2(n) == <<(n \div 256) % 256, n % 256>>

BE4(n) == <<(n \div 16777216) % 256, (n \div 65536) % 256, (n \div 256) % 256, n % 256>>

\* C1: round trip.  When the Unpacker is given exactly the bytes the Packer
\* operations produced for the Value tree packed, the first unpack() call
\* returns a Value equal to packed.
C1_RoundTrip ==
  (inp.kind = "encoded" /\ Len(data) = inp.elen /\ calls = 1 /\ Ended)
    => (outcome = "returned" /\ result = packed)

\* C2: truncation.  On a proper prefix of an encoding the Packer produced,
\* unpack() never returns a Value and no exception other than the
\* end-of-data error leaves it.
C2_TruncationRaises ==
  inp.kind = "truncated" => outcome \in {"constructed", "running", "end_of_data"}

C2_Witness ==
  /\ inp.kind = "truncated"
  /\ outcome = "end_of_data"
  /\ packed[1] = "map"
  /\ len = inp.elen - 1
  /\ pos = len
  /\ len > 3

\* C3: for every input the cursor stays within 0..len, no byte at an index
\* >= len is read, and unpack() ends by returning a Value or by the
\* end-of-data error raised at pos >= len; no other error leaves it.
C3_OnlyEndOfData ==
  /\ 0 <= pos /\ pos <= len
  /\ maxRead < len
  /\ outcome \in {"none", "constructed", "running", "returned", "end_of_data"}
  /\ (outcome = "end_of_data" => pos >= len)

\* the smallest signed form of the int64_t v, as C4 states it
ExpectedInt(v) ==
  IF I64Fits32(v) THEN
    LET n == I64Small(v)
    IN IF 0 <= n /\ n <= 127 THEN <<n>>
       ELSE IF -32 <= n /\ n < 0 THEN <<n + 256>>
       ELSE IF -128 <= n /\ n < 0 THEN <<208, n + 256>>
       ELSE IF -32768 <= n /\ n <= 32767 THEN <<209>> \o BE2((n + 65536) % 65536)
       ELSE <<210>> \o SubSeq(v, 5, 8)
  ELSE <<211>> \o v

\* the byte-for-byte examples of C4
IntExamples ==
  {<<127, <<127>> >>, <<128, <<209, 0, 128>> >>, <<-32, <<224>> >>,
   <<-33, <<208, 223>> >>, <<-128, <<208, 128>> >>, <<-129, <<209, 255, 127>> >>,
   <<32767, <<209, 127, 255>> >>, <<32768, <<210, 0, 0, 128, 0>> >>,
   <<-32768, <<209, 128, 0>> >>, <<-32769, <<210, 255, 255, 127, 255>> >>}

\* C4: pack_int (of either packer) appends the smallest signed form of its
\* argument: one byte for -32..127, 0xd0/0xd1/0xd2 with 1/2/4 big-endian
\* bytes up to 32 bits, 0xd3 with 8 bytes otherwise.
C4_SmallestIntForm ==
  lastOp.op = "int" =>
    /\ Emitted = ExpectedInt(lastOp.arg)
    /\ \A e \in IntExamples : lastOp.arg = I64(e[1]) => Emitted = e[2]

\* the header of a string of L bytes, as C5 states it
ExpectedStrHeader(L) ==
  IF L <= 31 THEN <<160 + L>>
  ELSE IF L <= 255 THEN <<217, L>>
  ELSE IF L <= 65535 THEN <<218>> \o BE2(L)
  ELSE <<219>> \o BE4(L)

\* C5: pack_string (of either packer) appends the header of the length
\* class of its argument, then exactly the bytes of the argument.
C5_StringForm ==
  lastOp.op = "string" =>
    LET L == lastOp.arg[1]
    IN Emitted = ExpectedStrHeader(L) \o StrX(L)

\* the header of n elements or pairs, as C6 states it
ExpectedCountHeader(fix, tag16, tag32, n) ==
  IF n <= 15 THEN <<fix + n>>
  ELSE IF n <= 65535 THEN <<tag16>> \o BE2(n)
  ELSE <<tag32>> \o BE4(n)

\* C6: pack_array_header and pack_map_header (of either packer) append the
\* header of the size class of the count, holding the count; an empty array
\* is 0x90 and an array of 16 zero integers is dc 00 10 and sixteen 00.
C6_CountHeaderForm ==
  /\ lastOp.op = "array_header" =>
       Emitted = ExpectedCountHeader(144, 220, 221, lastOp.arg[1])
  /\ lastOp.op = "map_header" =>
       Emitted = ExpectedCountHeader(128, 222, 223, lastOp.arg[1])
  /\ packed = VArr(<<>>) => buffer = <<144>>
  /\ packed = VArr([i \in 1..16 |-> VInt(I64(0))])
       => buffer = <<220, 0, 16>> \o [i \in 1..16 |-> 0]

\* the branches of unpack() that decode what a Packer operation encodes
KindsFor(op) ==
  CASE op = "nil" -> {"nil"}
    [] op \in {"true", "false", "bool"} -> {"true", "false"}
    [] op = "int" -> {"posfixint", "negfixint", "int8", "int16", "int32", "int64"}
    [] op = "double" -> {"float64"}
    [] op = "string" -> {"fixstr", "str8", "str16", "str32"}
    [] op = "array_header" -> {"fixarray", "array16", "array32"}
    [] op = "map_header" -> {"fixmap", "map16", "map32"}

\* C7: the form every Packer operation (of either packer) selects is
\* decoded by a branch of unpack() of the same kind, never by the default.
C7_SameConvention ==
  lastOp.op # "none" =>
    /\ TagKind(Emitted[1]) # "default"
    /\ TagKind(Emitted[1]) \in KindsFor(lastOp.op)

\* The Packer encodes x without loss: every integer of the tree is within
\* the 32 bits of its widest form (strings and counts of the trees encoded
\* here are all below 65536).
RECURSIVE Encodable(_)
Encodable(x) ==
  CASE x[1] = "int" -> I64Fits32(x[2])
    [] x[1] = "arr" -> \A i \in 1..Len(x[2]) : Encodable(x[2][i])
    [] x[1] = "map" -> \A k \in DOMAIN x[2] : Encodable(x[2][k])
    [] OTHER -> TRUE

\* C8: on a valid encoding e of packed followed by any bytes t, the first
\* unpack() call does not raise, returns packed and leaves the cursor at
\* Len(e); the second call starts there.
C8_ConsumesExactlyOne ==
  (inp.kind = "encoded" /\ Encodable(packed)) =>
    /\ (calls = 1 /\ Ended) =>
          (outcome = "returned" /\ result = packed /\ pos = inp.elen)
    /\ calls = 2 => callStart = inp.elen

C8_Witness ==
  /\ inp.kind = "encoded"
  /\ Encodable(packed)
  /\ packed[1] = "arr" /\ Len(packed[2]) = 2
  /\ len = inp.elen + 2
  /\ calls = 2
  /\ callStart = inp.elen
  /\ outcome = "returned"
  /\ result = VInt(I64(1))
  /\ pos = inp.elen + 1

\* the tag bytes of 0xc0..0xdf that C9 lists as having no decode rule:
\* 0xc1, 0xc4..0xc9, 0xcf, 0xd3..0xd8, 0xdb, 0xdf
UnrecognizedTags == {193} \cup (196..201) \cup {207} \cup (211..216) \cup {219, 223}

\* C9: an unpack() call whose leading tag byte is unrecognized does not
\* raise, returns Nil and consumes exactly that byte.
C9_UnrecognizedIsNil ==
  (calls >= 1 /\ callStart < len /\ LeadingTag \in UnrecognizedTags) =>
    /\ outcome \in {"running", "returned"}
    /\ outcome = "running" => (stack = <<UnpackFrame>> /\ pos = callStart)
    /\ outcome = "returned" => (result = VNil /\ pos = callStart + 1)

C9_Witness ==
  /\ data = <<219, 0, 0, 0, 1, 97>>
  /\ calls = 1
  /\ outcome = "returned"
  /\ result = VNil
  /\ pos = 1

\* C10: a typed accessor applied to a Value never raises.
C10_AccessNeverRaises ==
  access.name \in Accessors => access.res.raised = "none"

\* C11: has(k), x[k], x[i] and size() never raise.  x[k] is the stored value
\* when x is a map containing k and Nil otherwise; x[i] is element i when x
\* is an array longer than i and Nil otherwise; has(k) is true exactly when
\* x is a map containing k; size() is the length of an array, the number
\* of keys of a map and 0 otherwise.
C11_SafeAccess ==
  LET x == result
      isMap == x[1] = "map"
      isArr == x[1] = "arr"
  IN access.name \in {"has", "index_key", "index_idx", "size"} =>
       /\ access.res.raised = "none"
       /\ access.name = "has" =>
            access.res.val = (isMap /\ access.arg[1] \in DOMAIN x[2])
       /\ access.name = "index_key" =>
            access.res.val = (IF isMap /\ access.arg[1] \in DOMAIN x[2]
                              THEN x[2][access.arg[1]] ELSE VNil)
       /\ access.name = "index_idx" =>
            access.res.val = (IF isArr /\ access.arg[1] < Len(x[2])
                              THEN x[2][access.arg[1] + 1] ELSE VNil)
       /\ access.name = "size" =>
            access.res.val = (IF isArr THEN Len(x[2])
                              ELSE IF isMap THEN Cardinality(DOMAIN x[2]) ELSE 0)

\* the decoded flat record is asked has("id")
C11_Witness ==
  /\ access.name = "has"
  /\ access.arg = << <<105, 100>> >>
  /\ result[1] = "map"
  /\ access.res.val = TRUE

(***************************************************************************)
(* A reader of one encoded value at offset p of d that keeps everything it *)
(* reads: an array or a map of n entries is the sequence of the n, or 2n,  *)
(* values that follow its header.  It yields the offset after the value    *)
(* and the value, or the offset -1 when the bytes run out.                 *)
(***************************************************************************)
RefFail == [pos |-> -1, val |-> VNil]

\* the declared length or count of the header at offset p (-1: none needed)
RefCount(d, p) ==
  LET b == d[p + 1]
      kind == TagKind(b)
  IN CASE kind \in {"fixmap", "fixarray"} -> BitAnd(b, 15)
       [] kind = "fixstr" -> BitAnd(b, 31)
       [] kind \in {"str8", "str16", "array16", "map16"} ->
            UIntOf(SubSeq(d, p + 2, p + 1 + PayloadLen(kind)))
       [] kind = "array32" /\ ~reserve_throws(SubSeq(d, p + 2, p + 5)) ->
            UIntOf(SubSeq(d, p + 2, p + 5))
       [] OTHER -> -1

\* the pairs of a map read as 2n values, the keys that are strings only,
\* a later pair replacing an earlier one of the same key
RECURSIVE RefMapOf(_)
RefMapOf(vals) ==
  IF Len(vals) < 2 THEN EmptyMap
  ELSE LET n == Len(vals)
           before == RefMapOf(SubSeq(vals, 1, n - 2))
       IN IF is_string(vals[n - 1]) THEN MapSet(before, vals[n - 1][2], vals[n])
          ELSE before

RECURSIVE RefValue(_, _), RefValues(_, _, _)
RefValue(d, p) ==
  IF p < 0 \/ p >= Len(d) THEN RefFail
  ELSE
    LET b == d[p + 1]
        kind == TagKind(b)
        q == p + 1 + PayloadLen(kind)
    IN IF q > Len(d) THEN RefFail
       ELSE IF kind = "posfixint" THEN [pos |-> q, val |-> VInt(ZeroExtend(<<b>>))]
       ELSE IF kind = "negfixint" THEN [pos |-> q, val |-> VInt(SignExtend(<<b>>))]
       ELSE IF kind \in {"nil", "default"} THEN [pos |-> q, val |-> VNil]
       ELSE IF kind \in {"true", "false"} THEN [pos |-> q, val |-> VBool(kind = "true")]
       ELSE IF kind \in {"fixstr", "str8", "str16"} THEN
         LET n == RefCount(d, p)
         IN IF q + n > Len(d) THEN RefFail
            ELSE [pos |-> q + n, val |-> VStr(SubSeq(d, q + 1, q + n))]
       ELSE IF kind \in {"fixarray", "array16", "array32"} THEN
         LET n == RefCount(d, p)
             r == RefValues(d, q, n)
         IN IF n < 0 \/ n > Len(d) THEN RefFail
            ELSE IF r.pos < 0 THEN RefFail ELSE [pos |-> r.pos, val |-> VArr(r.val)]
       ELSE IF kind \in {"fixmap", "map16"} THEN
         LET n == RefCount(d, p)
             r == RefValues(d, q, 2 * n)
         IN IF n > Len(d) THEN RefFail
            ELSE IF r.pos < 0 THEN RefFail
            ELSE [pos |-> r.pos, val |-> VMap(RefMapOf(r.val))]
       ELSE [pos |-> q, val |-> ScalarOf(kind, SubSeq(d, p + 2, q))]

\* n values one after the other from offset p
RefValues(d, p, n) ==
  IF n = 0 THEN [pos |-> p, val |-> <<>>]
  ELSE LET first == RefValue(d, p)
       IN IF first.pos < 0 THEN [pos |-> -1, val |-> <<>>]
          ELSE LET rest == RefValues(d, first.pos, n - 1)
               IN IF rest.pos < 0 THEN rest
                  ELSE [pos |-> rest.pos, val |-> <<first.val>> \o rest.val]

\* C12: when unpack() returns from a map, its cursor is where reading the
\* 2n keys and values one after the other ends, and the map is made of the
\* pairs read whose key is a string: a pair with another key is consumed
\* whole and left out, and the pairs after it are decoded as they stand.
C12_NonStringKeyDropped ==
  (outcome = "returned" /\ calls >= 1 /\ callStart < len
     /\ TagKind(LeadingTag) \in {"fixmap", "map16"}) =>
    LET r == RefValue(data, callStart)
    IN /\ r.pos = pos
       /\ r.val = result
       /\ result[1] = "map"
       /\ Cardinality(DOMAIN result[2]) <= RefCount(data, callStart)

\* the pair of key [2, 3] and value {4: 5} between "a": 1 and "b": 6
C12_Witness ==
  /\ data = <<131, 161, 97, 1, 146, 2, 3, 129, 4, 5, 161, 98, 6>>
  /\ outcome = "returned"
  /\ calls = 1
  /\ pos = 13
  /\ result = VMap([k \in {<<97>>, <<98>>} |-> IF k = <<97>> THEN VInt(I64(1))
                                                ELSE VInt(I64(6))])

\* C13: for depth 0..5 and breadth 1..3 the size calculateTreeSize computes
\* is the number of bytes buildTreeCStruct reports having written into the
\* buffer resized to it: no header is stored outside the buffer and the
\* last one ends where the buffer ends.
C13_TreeSizeMatchesBuild ==
  lastCall.fn = "tree" =>
    /\ lastCall.totalSize = calculateTreeSize(lastCall.args[1], lastCall.args[2])
    /\ lastCall.offset = lastCall.totalSize
    /\ ~lastCall.oob
    /\ lastCall.written = lastCall.totalSize
    /\ Len(g_buffer.buf) = lastCall.totalSize

\* the tree of depth 5 and breadth 3: 364 nodes of 12 bytes
C13_Witness ==
  /\ lastCall.fn = "tree"
  /\ lastCall.args = <<5, 3>>
  /\ lastCall.offset = 4368
  /\ Len(g_buffer.buf) = 4368

(***************************************************************************)
(* The records as the layout describes them, byte by byte.                 *)
(***************************************************************************)
\* items i..count-1: id, value, nameLen, name
RECURSIVE ExpectedItems(_, _, _)
ExpectedItems(fn, i, count) ==
  IF i >= count THEN <<>>
  ELSE LE32(i) \o Reverse(DoubleOfHalves((IF fn = "nested" THEN 3 ELSE 5) * i))
         \o LE32(Len(NameOf(fn, i))) \o NameOf(fn, i) \o ExpectedItems(fn, i + 1, count)

\* doubles i..count-1
RECURSIVE ExpectedNumbers(_, _)
ExpectedNumbers(i, count) ==
  IF i >= count THEN <<>> ELSE Reverse(NumberAt(i)) \o ExpectedNumbers(i + 1, count)

\* a node in pre-order: depth, breadth, childrenCount, then its children
RECURSIVE ExpectedTree(_, _), ExpectedChildren(_, _, _)
ExpectedTree(depth, breadth) ==
  LE32(depth) \o LE32(breadth) \o LE32(IF depth > 0 THEN breadth ELSE 0)
    \o (IF depth > 0 THEN ExpectedChildren(breadth, depth - 1, breadth) ELSE <<>>)

ExpectedChildren(k, depth, breadth) ==
  IF k = 0 THEN <<>>
  ELSE ExpectedTree(depth, breadth) \o ExpectedChildren(k - 1, depth, breadth)

ExpectedRecord(fn, args) ==
  CASE fn = "flat" ->
         LE32(42) \o Reverse(PiBits) \o <<1>> \o LE32(args[1]) \o StrX(args[1])
    [] fn \in {"nested", "objects"} -> LE32(args[1]) \o ExpectedItems(fn, 0, args[1])
    [] fn = "numbers" -> LE32(args[1]) \o ExpectedNumbers(0, args[1])
    [] fn = "tree" -> ExpectedTree(args[1], args[2])

Intervened(c) == caller[c].phase = "read" /\ caller[c].saw.by # c

\* The statement of C15 as it stands: a caller whose generate was followed
\* by another caller's generate before its read observes that caller's
\* record and length; a caller that read right after its own generate
\* observes the record it asked for.
C15_ObservesOthersRecord ==
  \A c \in Callers :
    caller[c].phase = "read" =>
      LET last == caller[c].saw
          mine == ExpectedRecord(caller[c].fn, caller[c].args)
          theirs == ExpectedRecord(last.fn, last.args)
      IN /\ Intervened(c) =>
              (caller[c].seen.len = Len(theirs) /\ caller[c].seen.bytes = theirs)
         /\ ~Intervened(c) => caller[c].seen.bytes = mine

\* C15: the codec gives two callers no isolation.  A caller whose generate
\* was followed by another caller's generate before its read observes that
\* caller's length, and that caller's record when the later call left the
\* storage of the buffer in place; when the later call moved the storage,
\* the caller's pointer is left dangling and what it reads is indeterminate.
\* A caller that read right after its own generate observes the record it
\* asked for.
C15_NoIsolation ==
  \A c \in Callers :
    caller[c].phase = "read" =>
      LET last == caller[c].saw
          seen == caller[c].seen
          mine == ExpectedRecord(caller[c].fn, caller[c].args)
          theirs == ExpectedRecord(last.fn, last.args)
      IN /\ seen.len = Len(theirs)
         /\ (Intervened(c) /\ caller[c].ptr = last.ptr) =>
              (seen.kind = "bytes" /\ seen.bytes = theirs)
         /\ (Intervened(c) /\ caller[c].ptr # last.ptr) => seen.kind = "indeterminate"
         /\ ~Intervened(c) => (seen.kind = "bytes" /\ seen.bytes = mine)

\* A asked for a flat record of 17 bytes, B's flat record of 27 bytes moved
\* the storage, and A read 27 bytes that are not B's record
C15_Witness ==
  /\ Intervened("A")
  /\ caller["A"].fn = "flat" /\ caller["A"].args = <<0>>
  /\ caller["A"].saw.fn = "flat" /\ caller["A"].saw.args = <<10>>
  /\ caller["A"].ptr # caller["A"].saw.ptr
  /\ caller["A"].seen.kind = "indeterminate"
  /\ caller["A"].seen.len = 27
  /\ caller["A"].seen.bytes # ExpectedRecord("flat", <<10>>)

\* C16: the flat record has no padding: generateFlatCStruct(nameLen) leaves
\* exactly 17 + nameLen bytes, id = 42 at offset 0, value at offset 4, flag
\* = 1 at offset 12, nameLen at offset 13 and nameLen bytes 'x' from offset
\* 17; the stored nameLen is the number of name bytes that follow.
C16_FlatLayout ==
  (run.pc = "idle" /\ lastCall.fn = "flat") =>
    LET n == lastCall.args[1]
        b == g_buffer.buf
    IN /\ Len(b) = 17 + n
       /\ getLastCStructLength = 17 + n
       /\ SubSeq(b, 1, 4) = <<42, 0, 0, 0>>
       /\ SubSeq(b, 5, 12) = <<234, 46, 68, 84, 251, 33, 9, 64>>
       /\ b[13] = 1
       /\ b[14] + 256 * b[15] + 65536 * b[16] + 16777216 * b[17] = n
       /\ \A k \in 18..Len(b) : b[k] = 120
       /\ Len(b) - 17 = n
       /\ ~lastCall.oob

\* a name of 300 bytes: nameLen is stored as 2c 01 00 00
C16_Witness ==
  /\ run.pc = "idle"
  /\ lastCall.fn = "flat"
  /\ lastCall.args = <<300>>
  /\ Len(g_buffer.buf) = 317
  /\ SubSeq(g_buffer.buf, 14, 17) = <<44, 1, 0, 0>>
  /\ g_buffer.buf[317] = 120

\* the number of decimal digits of 0, ..., n - 1 together, n <= 1000
DigitsBelow(n) ==
  n + (IF n > 10 THEN n - 10 ELSE 0) + (IF n > 100 THEN n - 100 ELSE 0)

\* 4 + the sum over i < n of 16 + the length of the name of item i
ExpectedItemsSize(fn, n) ==
  4 + n * (16 + (IF fn = "nested" THEN 5 ELSE 7)) + DigitsBelow(n)

\* the int32 stored little-endian at offset 0 of b
HeaderCount(b) == b[1] + 256 * b[2] + 65536 * b[3] + 16777216 * b[4]

DecimalDigits(i) ==
  IF i < 10 THEN <<48 + i>>
  ELSE IF i < 100 THEN <<48 + (i \div 10), 48 + (i % 10)>>
  ELSE <<48 + (i \div 100), 48 + ((i \div 10) % 10), 48 + (i % 10)>>

C19_FlatMsgpackBytes ==
  lastMsgpack.fn = "generateFlatMsgpack" =>
    LET n == lastMsgpack.args[1]
    IN /\ buffer = <<132>>
                     \o <<162, 105, 100>> \o <<42>>
                     \o <<164, 110, 97, 109, 101>> \o ExpectedStrHeader(n) \o StrX(n)
                     \o <<165, 118, 97, 108, 117, 101>>
                     \o <<203, 64, 9, 33, 251, 84, 68, 46, 234>>
                     \o <<164, 102, 108, 97, 103>> \o <<195>>
       /\ n = 10 => Len(buffer) = 42

\* the record with a name of 10 bytes
C19_Witness ==
  /\ lastMsgpack.fn = "generateFlatMsgpack"
  /\ lastMsgpack.args = <<10>>
  /\ Len(buffer) = 42
  /\ buffer[1] = 132
  /\ SubSeq(buffer, 11, 22) = <<170>> \o StrX(10) \o <<165>>
  /\ buffer[42] = 195

\* C20: pack_double appends exactly 9 bytes, 0xcb and the 8 bytes of the
\* pattern from the most significant to the least significant; the Unpacker
\* reassembles the identical pattern from them; no Packer operation emits
\* 0xca as its tag byte; the Unpacker accepts 0xca and reads 4 payload
\* bytes for it.
C20_DoubleForm ==
  /\ lastOp.op = "double" =>
       /\ Len(Emitted) = 9
       /\ Emitted[1] = 203
       /\ \A i \in 1..8 : Emitted[i + 1] = lastOp.arg[i]
  /\ lastOp.op # "none" => Emitted[1] # 202
  /\ (calls >= 1 /\ outcome = "returned" /\ callStart < len /\ LeadingTag = 203) =>
       /\ result = VDouble(SubSeq(data, callStart + 2, callStart + 9))
       /\ pos = callStart + 9
  /\ (calls >= 1 /\ outcome = "returned" /\ callStart < len /\ LeadingTag = 202) =>
       /\ is_double(result)
       /\ pos = callStart + 5
  /\ (inp.kind = "encoded" /\ is_double(packed) /\ calls = 1 /\ Ended) =>
       (outcome = "returned" /\ result = packed)

\* 3.14159265359 packed as cb 40 09 21 fb 54 44 2e ea and read back
C20_Witness ==
  /\ inp.kind = "encoded"
  /\ packed = VDouble(<<64, 9, 33, 251, 84, 68, 46, 234>>)
  /\ data = <<203, 64, 9, 33, 251, 84, 68, 46, 234>>
  /\ calls = 1
  /\ outcome = "returned"
  /\ result = packed
  /\ pos = 9

\* C21: on an input of the single byte b, unpack() returns Int b when b <
\* 0x80, Int (b - 256) when b >= 0xe0 and Nil when b = 0xc0; 0x05 yields 5
\* and 0xff yields -1.
C21_FixintDecoding ==
  (Len(data) = 1 /\ calls = 1 /\ Ended) =>
    LET b == data[1]
    IN /\ b < 128 => (outcome = "returned" /\ result = VInt(I64(b)) /\ pos = 1)
       /\ b >= 224 => (outcome = "returned" /\ result = VInt(I64(b - 256)) /\ pos = 1)
       /\ b = 192 => (outcome = "returned" /\ result = VNil /\ pos = 1)
       /\ b = 5 => result = VInt(<<0, 0, 0, 0, 0, 0, 0, 5>>)
       /\ b = 255 => result = VInt(<<255, 255, 255, 255, 255, 255, 255, 255>>)

\* 0xe0, the lowest negative fixint, is -32
C21_Witness ==
  /\ data = <<224>>
  /\ calls = 1
  /\ outcome = "returned"
  /\ result = VInt(<<255, 255, 255, 255, 255, 255, 255, 224>>)
  /\ pos = 1

\* C22: a multi-byte read (a 16-bit or 32-bit length or count, a float32 or
\* float64 payload, a string body) that the bytes left cannot satisfy fails
\* with the cursor still at the first byte of that read: no byte of the
\* incomplete field has been consumed.  (Top.acc holds the bytes of the field
\* consumed so far.)
C22_FailsBeforeConsuming ==
  [][(outcome = "running" /\ outcome' = "end_of_data" /\ Top.k = "read")
       => (Top.acc = <<>> /\ pos' = pos)]_vars

\* every order in which the five range tests can be tried
TestOrders ==
  LET inCode == <<"posfixint", "negfixint", "fixmap", "fixarray", "fixstr">>
  IN {[i \in 1..5 |-> p[inCode[i]]] :
        p \in Permutations({inCode[i] : i \in 1..5})}

\* the branch taken for the byte b when the range tests are tried in the order
\* o, the switch when none of them holds
DispatchIn(o, b) ==
  LET hits == {i \in 1..5 : o[i] \in RangeTests(b)}
  IN IF hits = {} THEN TagKind(b)
     ELSE o[CHOOSE i \in hits : \A j \in hits : i <= j]

\* the tag names of the switch, its default included
SwitchKinds ==
  {"nil", "false", "true", "uint8", "uint16", "uint32", "int8", "int16", "int32",
   "float32", "float64", "str8", "str16", "array16", "array32", "map16", "default"}

\* C23: tag dispatch is unambiguous.  Every byte satisfies at most one of the
\* five range tests, it reaches the switch exactly when it lies in 0xc0..0xdf,
\* and in whatever order the range tests are tried the branch taken, and with
\* it the result of unpack() on that byte, is the same.
C23_DispatchUnambiguous ==
  (Len(data) = 1 /\ calls = 1 /\ Ended /\ access = NoAccess) =>
    LET b == data[1]
    IN /\ Cardinality(RangeTests(b)) <= 1
       /\ (RangeTests(b) = {}) <=> (b \in 192..223)
       /\ (TagKind(b) \in SwitchKinds) <=> (b \in 192..223)
       /\ \A o \in TestOrders :
            LET k == DispatchIn(o, b)
            IN /\ k = TagKind(b)
               /\ CASE k = "posfixint" ->
                         outcome = "returned" /\ result = VInt(ZeroExtend(<<b>>))
                    [] k = "negfixint" ->
                         outcome = "returned" /\ result = VInt(SignExtend(<<b>>))
                    [] k = "fixmap" ->
                         IF b = 128 THEN outcome = "returned" /\ result = VMap(EmptyMap)
                         ELSE outcome = "end_of_data"
                    [] k = "fixarray" ->
                         IF b = 144 THEN outcome = "returned" /\ result = VArr(<<>>)
                         ELSE outcome = "end_of_data"
                    [] k = "fixstr" ->
                         IF b = 160 THEN outcome = "returned" /\ result = VStr(<<>>)
                         ELSE outcome = "end_of_data"
                    [] OTHER -> b \in 192..223

\* 0x90 satisfies the fixarray test alone and decodes to the empty array
C23_Witness ==
  /\ data = <<144>>
  /\ calls = 1
  /\ outcome = "returned"
  /\ result = VArr(<<>>)
  /\ RangeTests(144) = {"fixarray"}
  /\ Cardinality(TestOrders) = 120

\* the parsed node is a tree of the given depth and breadth: every node of
\* depth d > 0 has breadth children of depth d - 1, a node of depth 0 none
RECURSIVE WellShaped(_, _, _)
WellShaped(node, d, breadth) ==
  /\ node.depth = d
  /\ node.breadth = breadth
  /\ Len(node.children) = (IF d > 0 THEN breadth ELSE 0)
  /\ \A k \in 1..Len(node.children) : WellShaped(node.children[k], d - 1, breadth)

\* the nodes of a parsed tree
RECURSIVE NodesOf(_), NodesOfFirst(_, _)
NodesOf(node) == 1 + NodesOfFirst(node.children, Len(node.children))

NodesOfFirst(children, k) ==
  IF k = 0 THEN 0 ELSE NodesOf(children[k]) + NodesOfFirst(children, k - 1)

\* C24: the external tree reader and the writer agree.  For depth in 0..5
\* and breadth in 1..3, parseTreeNode(buf, 0) over the buffer
\* generateTreeCStruct(depth, breadth) produced ends at the offset
\* getLastCStructLength() and returns a tree in which every node of depth
\* d > 0 has exactly breadth children of depth d - 1 and every node of depth
\* 0 has none, the nodes being laid out in pre-order, 12 bytes each.
C24_TreeReaderAgrees ==
  (caller["A"].phase = "read" /\ caller["A"].fn = "tree") =>
    LET p == caller["A"].parsed
        depth == caller["A"].args[1]
        breadth == caller["A"].args[2]
    IN /\ p.kind = "parsed"
       /\ p.ok
       /\ p.offset = getLastCStructLength
       /\ WellShaped(p.items[1], depth, breadth)
       /\ p.offset = 12 * NodesOf(p.items[1])
       /\ caller["A"].seen.bytes = ExpectedTree(depth, breadth)

\* the tree of depth 5 and breadth 3: 364 nodes in 4368 bytes
C24_Witness ==
  /\ caller["A"].phase = "read"
  /\ caller["A"].fn = "tree"
  /\ caller["A"].args = <<5, 3>>
  /\ caller["A"].parsed.ok
  /\ caller["A"].parsed.offset = 4368
  /\ Len(caller["A"].parsed.items[1].children) = 3
  /\ getLastCStructLength = 4368

(***************************************************************************)
(* unpack() runs to completion on the calling thread: once called, its     *)
(* steps go on until it returns or an exception leaves it.                 *)
(***************************************************************************)
UnpackStep == ReadTag \/ ReadPayload \/ CallNested \/ ReturnContainer

\* an Unpacker on bytes received from the host, and calls of unpack()
UnpackNext ==
  \/ NewUnpackerRaw
  \/ CallUnpack
  \/ ReadTag
  \/ ReadPayload
  \/ CallNested
  \/ ReturnContainer

LiveSpec == Init /\ [][UnpackNext]_vars /\ WF_vars(UnpackStep)

\* every invocation of the current call that has read its tag byte has
\* consumed at least one byte of its own; at most one has not (it is about to
\* read, or it raised the end-of-data error)
EachInvocationConsumes ==
  /\ invocations <= len + 1
  /\ outcome = "running" =>
       invocations - (IF Top.k = "unpack" THEN 1 ELSE 0) <= pos - callStart
  /\ outcome = "returned" => invocations <= pos - callStart
  /\ outcome = "end_of_data" => invocations <= pos - callStart + 1

\* C25: unpack() terminates on every finite byte sequence.  Each invocation,
\* top-level or recursive, consumes at least one byte or raises the
\* end-of-data error, so there are at most len + 1 invocations, even when a
\* header declares a count far larger than the bytes that remain; and every
\* call that has started ends.
C25_UnpackTerminates ==
  /\ []EachInvocationConsumes
  /\ (outcome = "running") ~> Ended

\* an array16 header declaring 65535 elements, followed by one nil: the third
\* invocation raises
C25_Witness ==
  /\ data = <<220, 255, 255, 192>>
  /\ outcome = "end_of_data"
  /\ invocations = 3
  /\ pos = 4

(***************************************************************************)
(* MessagePack as the format defines it: where the value that starts at    *)
(* offset p of d ends, or -1 when d holds no complete value there.         *)
(***************************************************************************)
\* the end e of a field, when the bytes reach it
FitsIn(d, e) == IF e <= Len(d) THEN e ELSE -1

\* the unsigned big-endian number in the k bytes after offset p, or -1
BEAt(d, p, k) ==
  IF p + k > Len(d) THEN -1
  ELSE IF k = 1 THEN d[p + 1]
  ELSE IF k = 2 THEN d[p + 1] * 256 + d[p + 2]
  ELSE IF d[p + 1] >= 128 THEN -1
  ELSE d[p + 1] * 16777216 + d[p + 2] * 65536 + d[p + 3] * 256 + d[p + 4]

RECURSIVE MsgEnd(_, _), MsgSeqEnd(_, _, _)
MsgEnd(d, p) ==
  IF p < 0 \/ p >= Len(d) THEN -1
  ELSE
    LET b == d[p + 1]
        \* a body of n bytes, or n values, after a count of k bytes
        body(k) == IF BEAt(d, p + 1, k) < 0 THEN -1
                   ELSE FitsIn(d, p + 1 + k + BEAt(d, p + 1, k))
        values(k, per) == IF BEAt(d, p + 1, k) < 0 THEN -1
                          ELSE MsgSeqEnd(d, p + 1 + k, per * BEAt(d, p + 1, k))
    IN CASE b < 128 \/ b >= 224 -> p + 1
         [] b \in 128..143 -> MsgSeqEnd(d, p + 1, 2 * (b - 128))
         [] b \in 144..159 -> MsgSeqEnd(d, p + 1, b - 144)
         [] b \in 160..191 -> FitsIn(d, p + 1 + (b - 160))
         [] b \in {192, 194, 195} -> p + 1
         [] b \in {204, 208} -> FitsIn(d, p + 2)
         [] b \in {205, 209} -> FitsIn(d, p + 3)
         [] b \in {202, 206, 210} -> FitsIn(d, p + 5)
         [] b \in {203, 207, 211} -> FitsIn(d, p + 9)
         [] b = 217 -> body(1)
         [] b = 218 -> body(2)
         [] b = 219 -> body(4)
         [] b = 220 -> values(2, 1)
         [] b = 221 -> values(4, 1)
         [] b = 222 -> values(2, 2)
         [] b = 223 -> values(4, 2)
         [] OTHER -> -1

MsgSeqEnd(d, p, n) ==
  IF n = 0 THEN p
  ELSE LET e == MsgEnd(d, p)
       IN IF e < 0 THEN -1 ELSE MsgSeqEnd(d, e, n - 1)

\* the first bytes of the record a generate*Msgpack call emits: the headers
\* and keys that come before anything sized by its arguments
LeadingBytes(fn, args) ==
  CASE fn = "generateFlatMsgpack" -> <<132, 162>> \o KeyId \o <<42, 164>> \o KeyName
    [] fn = "generateNestedMsgpack" ->
         <<129, 164>> \o KeyData \o <<129, 165>> \o KeyItems
           \o ExpectedCountHeader(144, 220, 221, args[1])
    [] fn \in {"generateNumberArrayMsgpack", "generateObjectArrayMsgpack"} ->
         ExpectedCountHeader(144, 220, 221, args[1])
    [] fn = "generateTreeMsgpack" ->
         <<(IF args[1] > 0 THEN 131 ELSE 130), 165>> \o KeyDepth \o <<args[1], 167>>
           \o KeyBreadth \o <<args[2]>>

\* C26: after any sequence of generate*Msgpack calls with non-negative
\* arguments the global packer holds exactly the encoding of the most recent
\* call.  Every call clears the buffer first, so no byte of an earlier call
\* remains; the buffer is one complete well-formed MessagePack value, in
\* which every array and map header count is the number of elements or pairs
\* emitted after it; getLastMsgpackLength() is the number of bytes of that
\* value.
C26_LastEncodingOnly ==
  lastMsgpack.fn # "none" =>
    LET lead == LeadingBytes(lastMsgpack.fn, lastMsgpack.args)
    IN /\ MsgEnd(buffer, 0) = Len(buffer)
       /\ getLastMsgpackLength = MsgEnd(buffer, 0)
       /\ SubSeq(buffer, 1, Len(lead)) = lead

\* an empty number array generated over the 17 maps of a nested record
C26_Witness ==
  /\ lastMsgpack.fn = "generateNumberArrayMsgpack"
  /\ lastMsgpack.args = <<0>>
  /\ lastMsgpack.over > 400
  /\ lastMsgpack.over < 1000
  /\ buffer = <<144>>
  /\ getLastMsgpackLength = 1

\* breadth^0 + breadth^1 + ... + breadth^depth, with breadth^0 = 1
RECURSIVE Power(_, _), SumOfPowers(_, _)
Power(b, e) == IF e = 0 THEN 1 ELSE b * Power(b, e - 1)

SumOfPowers(b, e) == IF e = 0 THEN 1 ELSE Power(b, e) + SumOfPowers(b, e - 1)

\* C27: for depth >= 0 and breadth >= 0 within the bounds checked, countNodes
\* applied to the bytes of createComplexObject(depth, breadth) returns the
\* number of tree nodes, the sum of breadth^i for i = 0..depth.
C27_CountNodes ==
  LET depth == lastOp.arg[1]
      breadth == lastOp.arg[2]
  IN /\ (inp.kind = "complex" => outcome \in {"running", "returned"})
     /\ (inp.kind = "complex" /\ outcome = "returned") => pos = len
     /\ access.name = "countNodes" => access.res = Got(SumOfPowers(breadth, depth))

\* depth 2 and breadth 3: 1 + 3 + 9 nodes
C27_Witness ==
  /\ lastOp.arg = <<2, 3>>
  /\ access.name = "countNodes"
  /\ access.res.val = 13
  /\ pos = len

\* the int64_t an integer tag stands for, from the payload bytes a: the
\* unsigned big-endian number, or the two's-complement one
IntOfPayload(signed, a) ==
  LET k == Len(a)
      u == IF k = 1 THEN a[1] ELSE a[1] * 256 + a[2]
  IN IF k <= 2
     THEN I64(IF signed /\ a[1] >= 128 THEN u - (IF k = 1 THEN 256 ELSE 65536) ELSE u)
     ELSE (IF signed /\ a[1] >= 128 THEN <<255, 255, 255, 255>> ELSE <<0, 0, 0, 0>>) \o a

\* C28: integer tags decode with the signedness of their tag.  0xcc, 0xcd
\* and 0xce yield the zero-extended unsigned value of their 1, 2 or 4
\* big-endian payload bytes; 0xd0, 0xd1 and 0xd2 yield the two's-complement
\* value sign-extended to 64 bits: cc ff is 255 and d0 ff is -1.
C28_IntegerSignedness ==
  (inp.kind = "raw" /\ calls = 1 /\ outcome = "returned" /\ len > 0
     /\ data[1] \in {204, 205, 206, 208, 209, 210}) =>
    LET k == CASE data[1] \in {204, 208} -> 1
               [] data[1] \in {205, 209} -> 2
               [] OTHER -> 4
        a == SubSeq(data, 2, k + 1)
        signed == data[1] \in {208, 209, 210}
    IN /\ pos = k + 1
       /\ result = VInt(IntOfPayload(signed, a))
       /\ ~signed => SubSeq(result[2], 1, 8 - k) = Zeros(8 - k)
       /\ data = <<204, 255>> => result = VInt(I64(255))
       /\ data = <<208, 255>> => result = VInt(I64(-1))
       /\ data = <<205, 255, 255>> => result = VInt(I64(65535))
       /\ data = <<209, 128, 0>> => result = VInt(I64(-32768))
       /\ data = <<206, 255, 255, 255, 255>> =>
            result = VInt(<<0, 0, 0, 0, 255, 255, 255, 255>>)
       /\ data = <<210, 128, 0, 0, 0>> => result = VInt(I64(-2147483647 - 1))

\* ce ff ff ff ff is 2^32 - 1
C28_Witness ==
  /\ data = <<206, 255, 255, 255, 255>>
  /\ calls = 1
  /\ outcome = "returned"
  /\ pos = 5
  /\ result = VInt(<<0, 0, 0, 0, 255, 255, 255, 255>>)

\* C29: when a decoded map contains the same string key more than once, the
\* value of its last occurrence in the input is the one kept; the decoded
\* map never has more entries than the declared pair count, and all declared
\* pairs are consumed from the input.
C29_LastKeyWins ==
  (outcome = "returned" /\ calls = 1 /\ len > 0
     /\ TagKind(data[1]) \in {"fixmap", "map16"}) =>
    LET n == RefCount(data, 0)
        read == RefValues(data, 1 + PayloadLen(TagKind(data[1])), 2 * n)
        \* the pairs in which the string key occurs, in input order
        at(key) == {i \in 1..n : read.val[2 * i - 1] = VStr(key)}
    IN /\ is_map(result)
       /\ read.pos = pos
       /\ Cardinality(DOMAIN result[2]) <= n
       /\ DOMAIN result[2] =
            {read.val[2 * i - 1][2] : i \in {j \in 1..n : is_string(read.val[2 * j - 1])}}
       /\ \A key \in DOMAIN result[2] :
            LET last == CHOOSE i \in at(key) : \A j \in at(key) : j <= i
            IN result[2][key] = read.val[2 * last]

\* { "a": 1, "a": 2 } decodes to { "a": 2 }
C29_Witness ==
  /\ data = <<130, 161, 97, 1, 161, 97, 2>>
  /\ outcome = "returned"
  /\ calls = 1
  /\ pos = 7
  /\ result = VMap([k \in {<<97>>} |-> VInt(I64(2))])

\* C30: for every 32-bit int argument, negative values included,
\* generateFlatCStruct and generateNumberArrayCStruct write only at offsets
\* inside the scratch buffer as resized by that call (the size taken modulo
\* 2^32): no header field, name byte or array element is written at an
\* offset >= the buffer size.
C30_WritesInsideBuffer ==
  /\ ~run.oob
  /\ ~lastCall.oob
  /\ lastCall.written <= Len(g_buffer.buf)

=============================================================================
